---------------------------- MODULE Spec2Model ----------------------------
(***************************************************************************)
(* A model of tx-rs (src/src/lib.rs): computation values built with        *)
(* with_tx and the combinators of trait Tx, and their execution by run     *)
(* against one mutable context.                                            *)
(*                                                                         *)
(* A computation value is a record, one shape per struct of the library    *)
(* (WithTx, Map, AndThen, ...).  Every value carries a node id so that     *)
(* the execution trace can name it.  A Result is [ok, val].  The context   *)
(* is the sequence of values the leaves wrote to it.                       *)
(*                                                                         *)
(* Three users of the library are modelled next to it, each under its own  *)
(* specification: PersonServiceImpl::run_tx (src/app/main.rs), which       *)
(* brackets a closure with a database transaction, PersonCachedService     *)
(* (src/app/cached_service.rs), which puts a cache in front of the         *)
(* service, and PersonUsecase (src/app/usecase.rs), whose use cases are    *)
(* computation values built from DAO operations with the combinators.      *)
(***************************************************************************)
EXTENDS Integers, Sequences, FiniteSets, TLC

VARIABLES
    tx,      \* the computation value the caller holds: <<>> or <<value>>
    fresh,   \* next unused node id
    nops,    \* number of combinators applied so far
    ctx,     \* the caller's context
    trace,   \* what run did: enter / call / ret events, in order
    result,  \* <<>> before run, <<Result>> after it
    ran,     \* the value that was passed to run: <<>> or <<value>>
    pc       \* "build" | "done"

\* PersonServiceImpl::run_tx
VARIABLES
    rt_pc,     \* "idle" | "started" | "called" | "returned" | "panicked"
    rt_f,      \* the closure passed to run_tx: <<>> or <<closure>>
    rt_ctx,    \* the open transaction: <<>> or <<writes made in it>>
    rt_res,    \* what f returned: <<>> or <<Result>>
    rt_calls,  \* what this call of run_tx called so far, in order
    rt_ret,    \* what run_tx returned: <<>> or <<Result>>
    rows,      \* the committed content of the database
    rt_n       \* number of run_tx calls so far

\* PersonCachedService
VARIABLES
    cache,     \* the cache: PersonId -> Option<Person>
    db,        \* the service's database: PersonId -> Option<Person>
    next_id,   \* the id the service gives to the next person
    req,       \* the last call of the cached service and its arguments
    spy,       \* the cache and service operations of the last call, in order
    reply      \* what the last call returned: <<>> or <<Result>>

\* PersonUsecase
VARIABLES
    uc         \* the use case that was called and its arguments

\* Two computations run side by side
VARIABLES
    other      \* <<>>, or the outcome of the second computation: [ctx, trace, res]

libVars == <<tx, fresh, nops, ctx, trace, result, ran, pc>>

runTxVars == <<rt_pc, rt_f, rt_ctx, rt_res, rt_calls, rt_ret, rows, rt_n>>

cachedVars == <<cache, db, next_id, req, spy, reply>>

usecaseVars == <<uc>>

pairVars == <<other>>

appVars == <<runTxVars, cachedVars, usecaseVars, pairVars>>

vars == <<tx, fresh, nops, ctx, trace, result, ran, pc, appVars>>

\* Largest number of combinator applications in one composed value.
MaxOps == 2

\* Contexts a caller may pass to run.
InitCtxs == {<<>>, <<0>>}

--------------------------------------------------------------------------
(* Results *)

Ok(v) == [ok |-> TRUE, val |-> v]

Err(e) == [ok |-> FALSE, val |-> e]

--------------------------------------------------------------------------
(* Closures.  A closure is [id, own]: id selects its body, own is the node *)
(* of the combinator that captured it (a closure is captured once).        *)

\* Bodies of the leaf functions given to with_tx: each writes to the context
\* and then returns.
LeafKinds == {"ok", "err", "get"}

\* The operations of PersonDao.  The leaf a DAO operation returns is
\* [kind, val, res]: run against the context it records val, the operation
\* and its arguments, and returns res, the result the DAO was set up with.
DaoOps == {"insert", "fetch", "select", "save", "delete"}

\* The variants of UsecaseError that wrap a DaoError.
DaoFailures == {"EntryPersonFailed", "FindPersonFailed", "EntryAndVerifyPersonFailed",
                "CollectPersonFailed", "SavePersonFailed", "RemovePersonFailed"}

\* UsecaseError::tag(e)
UsecaseError(tag, e) == [tag |-> tag, e |-> e]

\* A computation value with one sub-computation and a closure.
combinator(op, n, tx1, f) == [op |-> op, node |-> n, ity |-> "int", tx1 |-> tx1, f |-> f]

\* The computation value the DAO returns for operation op with arguments arg.
dao_leaf(n, op, arg, res) ==
    [op |-> "WithTx", node |-> n, ity |-> "int",
     f |-> [kind |-> op, val |-> [op |-> op, arg |-> arg], res |-> res]]

\* Person::dead_at(date) on the person of layout p, then p.into(): the
\* layout with that death date, or a PersonDomainError when the domain
\* rejects the date.
dead_at(p, date, rejects) ==
    IF rejects THEN Err("PersonDomainError")
    ELSE Ok([p EXCEPT !.death = <<date>>])

\* f(ctx) for a leaf function f = [kind, val]: the Result and the new context.
apply_leaf(f, c) ==
    [res |-> CASE f.kind = "ok"  -> Ok(f.val)
               [] f.kind = "err" -> Err(f.val)
               [] f.kind = "get" -> Ok(Len(c))
               [] f.kind \in DaoOps -> f.res,
     ctx |-> Append(c, f.val)]

\* The type of the argument a closure takes: "fst" takes the tuple a join
\* returns, every other closure an integer.
takes(id) == IF id = "fst" THEN "tup" ELSE "int"

\* Closures from a payload to a plain value.
apply_fn(f, v) ==
    CASE f.id = "dbl"  -> v * 2
      [] f.id = "wrap" -> v + 10
      [] f.id = "dflt" -> v + 40
      [] f.id = "bad"  -> v + 30
      [] f.id = "fst"  -> v[1]
      [] f.id = "pair" -> <<f.a, v>>
      [] f.id \in DaoFailures -> UsecaseError(f.id, v)

\* Closures from a payload to a Result.
apply_try(f, v) ==
    CASE f.id = "chk_ok"  -> Ok(v * 2)
      [] f.id = "chk_err" -> Err(v + 20)
      [] f.id = "verify" ->
             IF v # <<>> THEN Ok(<<f.id_, v[1]>>) ELSE Err("SelectError")
      [] f.id = "mark_dead" ->
             IF v # <<>>
             THEN LET r == dead_at(v[1], f.date, f.rejects)
                  IN  IF r.ok THEN r
                      ELSE Err(UsecaseError("DomainObjectChangeFailed", r.val))
             ELSE Err(UsecaseError("FindPersonFailed", "SelectError"))

\* The leaf a continuation closure builds; its node is the negated node of
\* the combinator that owns the closure.
made_leaf(f, kind, v) ==
    [op |-> "WithTx", node |-> 0 - f.own, ity |-> "int",
     f |-> [kind |-> kind, val |-> v]]

RECURSIVE apply_k(_, _)

\* Closures from a payload to a computation value (and_then, or_else).
apply_k(f, v) ==
    CASE f.id = "k_ok"  -> made_leaf(f, "ok", v * 2)
      [] f.id = "k_err" -> made_leaf(f, "err", v + 20)
      [] f.id = "k_get" -> made_leaf(f, "get", v)
      [] f.id = "f_and_then_g" ->
             combinator("AndThen", 0 - f.own, apply_k(f.f, v), f.g)
      [] f.id = "pair_with" ->
             combinator("Map", 0 - f.own, f.tx2,
                        [id |-> "pair", own |-> 0 - f.own, a |-> v])
      [] f.id = "fetch_and_verify" ->
             combinator("TryMap", 0 - f.own,
                        dao_leaf(0 - f.own - f.own, "fetch", v, f.fetched),
                        [id |-> "verify", own |-> 0 - f.own, id_ |-> v])
      [] f.id = "save_dead" ->
             combinator("MapErr", 0 - f.own,
                        dao_leaf(0 - f.own - f.own, "save", <<f.id_, v>>, f.saved),
                        [id |-> "SavePersonFailed", own |-> 0 - f.own])

\* Closures from a Result to a computation value (then).
apply_then(f, r) ==
    CASE f.id = "k_match" -> IF r.ok THEN made_leaf(f, "ok", r.val * 2)
                                     ELSE made_leaf(f, "err", r.val)
      [] f.id = "k_swap"  -> IF r.ok THEN made_leaf(f, "err", r.val)
                                     ELSE made_leaf(f, "ok", r.val)

--------------------------------------------------------------------------
(* Execution.  An execution state is [ctx, trace, res].                    *)

Event(ev, node, op, res, c) ==
    [ev |-> ev, node |-> node, op |-> op, res |-> res, ctx |-> c]

Emit(st, ev, node, op, res) ==
    [st EXCEPT !.trace = Append(st.trace, Event(ev, node, op, res, st.ctx))]

\* Calling closure f with the payload of arg is recorded in the trace.
called(st, f, arg) == Emit(st, "call", f.own, f.id, arg)

RECURSIVE run(_, _)

\* A leaf that calls its function a second time on the context the first
\* call left.
with_tx_run_twice(f, st) ==
    LET once == apply_leaf(f, st.ctx)
        out == apply_leaf(f, once.ctx)
    IN  [st EXCEPT !.ctx = out.ctx, !.res = out.res]

\* WithTx::run: (self.f)(ctx)
with_tx_run(f, st) ==
    LET out == apply_leaf(f, st.ctx)
    IN  [st EXCEPT !.ctx = out.ctx, !.res = out.res]

\* run of a bare closure (impl Tx<Ctx> for F): self(ctx)
fn_run(f, st) ==
    LET out == apply_leaf(f, st.ctx)
    IN  [st EXCEPT !.ctx = out.ctx, !.res = out.res]

\* map that passes a success value through without applying f.
map_forgets_f(tx1, f, st) ==
    LET s1 == run(tx1, st)
    IN  IF s1.res.ok
        THEN [s1 EXCEPT !.res = Ok(s1.res.val)]
        ELSE [s1 EXCEPT !.res = Err(s1.res.val)]

map(tx1, f, st) ==
    LET s1 == run(tx1, st)
    IN  IF s1.res.ok
        THEN [called(s1, f, s1.res) EXCEPT !.res = Ok(apply_fn(f, s1.res.val))]
        ELSE [s1 EXCEPT !.res = Err(s1.res.val)]

\* and_then that runs tx1 a second time when it failed.
and_then_retries(tx1, f, st) ==
    LET s0 == run(tx1, st)
        s1 == IF s0.res.ok THEN s0 ELSE run(tx1, s0)
    IN  IF s1.res.ok
        THEN run(apply_k(f, s1.res.val), called(s1, f, s1.res))
        ELSE [s1 EXCEPT !.res = Err(s1.res.val)]

\* and_then that puts the context back as it found it when a step fails.
and_then_undoes_on_failure(tx1, f, st) ==
    LET s1 == run(tx1, st)
        s2 == IF s1.res.ok
              THEN run(apply_k(f, s1.res.val), called(s1, f, s1.res))
              ELSE [s1 EXCEPT !.res = Err(s1.res.val)]
    IN  IF s2.res.ok THEN s2 ELSE [s2 EXCEPT !.ctx = st.ctx]

\* and_then that goes on to the continuation after a failure too.
and_then_after_failure(tx1, f, st) ==
    LET s1 == run(tx1, st)
    IN  run(apply_k(f, s1.res.val), called(s1, f, s1.res))

and_then(tx1, f, st) ==
    LET s1 == run(tx1, st)
    IN  IF s1.res.ok
        THEN run(apply_k(f, s1.res.val), called(s1, f, s1.res))
        ELSE [s1 EXCEPT !.res = Err(s1.res.val)]

\* then that stops at a failure of tx1, like and_then.
then_short_circuit(tx1, f, st) ==
    LET s1 == run(tx1, st)
    IN  IF s1.res.ok
        THEN run(apply_then(f, s1.res), called(s1, f, s1.res))
        ELSE [s1 EXCEPT !.res = Err(s1.res.val)]

then(tx1, f, st) ==
    LET s1 == run(tx1, st)
    IN  run(apply_then(f, s1.res), called(s1, f, s1.res))

\* or_else that runs the replacement and still reports the first error.
or_else_keeps_error(tx1, f, st) ==
    LET s1 == run(tx1, st)
    IN  IF s1.res.ok
        THEN [s1 EXCEPT !.res = Ok(s1.res.val)]
        ELSE [run(apply_k(f, s1.res.val), called(s1, f, s1.res))
                 EXCEPT !.res = Err(s1.res.val)]

or_else(tx1, f, st) ==
    LET s1 == run(tx1, st)
    IN  IF s1.res.ok
        THEN [s1 EXCEPT !.res = Ok(s1.res.val)]
        ELSE run(apply_k(f, s1.res.val), called(s1, f, s1.res))

\* join that runs its second argument before its first.
join_right_to_left(tx1, tx2, st) ==
    LET s2 == run(tx2, st)
        s1 == run(tx1, s2)
    IN  IF s1.res.ok /\ s2.res.ok
        THEN [s1 EXCEPT !.res = Ok(<<s1.res.val, s2.res.val>>)]
        ELSE IF ~s1.res.ok THEN [s1 EXCEPT !.res = Err(s1.res.val)]
        ELSE [s1 EXCEPT !.res = Err(s2.res.val)]

\* join that stops at the first failure, like and_then.
join_short_circuit(tx1, tx2, st) ==
    LET s1 == run(tx1, st)
        s2 == run(tx2, s1)
    IN  IF ~s1.res.ok THEN [s1 EXCEPT !.res = Err(s1.res.val)]
        ELSE IF s2.res.ok
             THEN [s2 EXCEPT !.res = Ok(<<s1.res.val, s2.res.val>>)]
             ELSE [s2 EXCEPT !.res = Err(s2.res.val)]

\* join that gives tx2 the context as it was before tx1 ran.
join_forks_context(tx1, tx2, st) ==
    LET s1 == run(tx1, st)
        s2 == run(tx2, [s1 EXCEPT !.ctx = st.ctx])
    IN  IF s1.res.ok /\ s2.res.ok
        THEN [s2 EXCEPT !.res = Ok(<<s1.res.val, s2.res.val>>)]
        ELSE IF ~s1.res.ok THEN [s2 EXCEPT !.res = Err(s1.res.val)]
        ELSE [s2 EXCEPT !.res = Err(s2.res.val)]

\* join that returns the pair the other way round.
join_swaps_pair(tx1, tx2, st) ==
    LET s1 == run(tx1, st)
        s2 == run(tx2, s1)
    IN  IF s1.res.ok /\ s2.res.ok
        THEN [s2 EXCEPT !.res = Ok(<<s2.res.val, s1.res.val>>)]
        ELSE IF ~s1.res.ok THEN [s2 EXCEPT !.res = Err(s1.res.val)]
        ELSE [s2 EXCEPT !.res = Err(s2.res.val)]

\* join that reports the error of the last failing argument.
join_last_error(tx1, tx2, st) ==
    LET s1 == run(tx1, st)
        s2 == run(tx2, s1)
    IN  IF s1.res.ok /\ s2.res.ok
        THEN [s2 EXCEPT !.res = Ok(<<s1.res.val, s2.res.val>>)]
        ELSE IF ~s2.res.ok THEN [s2 EXCEPT !.res = Err(s2.res.val)]
        ELSE [s2 EXCEPT !.res = Err(s1.res.val)]

join(tx1, tx2, st) ==
    LET s1 == run(tx1, st)
        s2 == run(tx2, s1)
    IN  IF s1.res.ok /\ s2.res.ok
        THEN [s2 EXCEPT !.res = Ok(<<s1.res.val, s2.res.val>>)]
        ELSE IF ~s1.res.ok THEN [s2 EXCEPT !.res = Err(s1.res.val)]
        ELSE [s2 EXCEPT !.res = Err(s2.res.val)]

\* join3 whose error patterns are tried in the order tx1, tx3, tx2.
join3_wrong_precedence(tx1, tx2, tx3, st) ==
    LET s1 == run(tx1, st)
        s2 == run(tx2, s1)
        s3 == run(tx3, s2)
    IN  IF s1.res.ok /\ s2.res.ok /\ s3.res.ok
        THEN [s3 EXCEPT !.res = Ok(<<s1.res.val, s2.res.val, s3.res.val>>)]
        ELSE IF ~s1.res.ok THEN [s3 EXCEPT !.res = Err(s1.res.val)]
        ELSE IF ~s3.res.ok THEN [s3 EXCEPT !.res = Err(s3.res.val)]
        ELSE [s3 EXCEPT !.res = Err(s2.res.val)]

join3(tx1, tx2, tx3, st) ==
    LET s1 == run(tx1, st)
        s2 == run(tx2, s1)
        s3 == run(tx3, s2)
    IN  IF s1.res.ok /\ s2.res.ok /\ s3.res.ok
        THEN [s3 EXCEPT !.res = Ok(<<s1.res.val, s2.res.val, s3.res.val>>)]
        ELSE IF ~s1.res.ok THEN [s3 EXCEPT !.res = Err(s1.res.val)]
        ELSE IF ~s2.res.ok THEN [s3 EXCEPT !.res = Err(s2.res.val)]
        ELSE [s3 EXCEPT !.res = Err(s3.res.val)]

join4(tx1, tx2, tx3, tx4, st) ==
    LET s1 == run(tx1, st)
        s2 == run(tx2, s1)
        s3 == run(tx3, s2)
        s4 == run(tx4, s3)
    IN  IF s1.res.ok /\ s2.res.ok /\ s3.res.ok /\ s4.res.ok
        THEN [s4 EXCEPT !.res =
                 Ok(<<s1.res.val, s2.res.val, s3.res.val, s4.res.val>>)]
        ELSE IF ~s1.res.ok THEN [s4 EXCEPT !.res = Err(s1.res.val)]
        ELSE IF ~s2.res.ok THEN [s4 EXCEPT !.res = Err(s2.res.val)]
        ELSE IF ~s3.res.ok THEN [s4 EXCEPT !.res = Err(s3.res.val)]
        ELSE [s4 EXCEPT !.res = Err(s4.res.val)]

\* map_err that passes the error through without applying f.
map_err_forgets_f(tx1, f, st) ==
    LET s1 == run(tx1, st)
    IN  IF s1.res.ok
        THEN [s1 EXCEPT !.res = Ok(s1.res.val)]
        ELSE [s1 EXCEPT !.res = Err(s1.res.val)]

map_err(tx1, f, st) ==
    LET s1 == run(tx1, st)
    IN  IF s1.res.ok
        THEN [s1 EXCEPT !.res = Ok(s1.res.val)]
        ELSE [called(s1, f, s1.res) EXCEPT !.res = Err(apply_fn(f, s1.res.val))]

\* try_map that keeps the success value when f rejects it.
try_map_ignores_rejection(tx1, f, st) ==
    LET s1 == run(tx1, st)
    IN  IF s1.res.ok
        THEN [called(s1, f, s1.res) EXCEPT !.res =
                 IF apply_try(f, s1.res.val).ok THEN apply_try(f, s1.res.val)
                 ELSE Ok(s1.res.val)]
        ELSE [s1 EXCEPT !.res = Err(s1.res.val)]

try_map(tx1, f, st) ==
    LET s1 == run(tx1, st)
    IN  IF s1.res.ok
        THEN [called(s1, f, s1.res) EXCEPT !.res = apply_try(f, s1.res.val)]
        ELSE [s1 EXCEPT !.res = Err(s1.res.val)]

\* recover that returns the fallback as an error.
recover_returns_err(tx1, f, st) ==
    LET s1 == run(tx1, st)
    IN  IF s1.res.ok
        THEN [s1 EXCEPT !.res = Ok(s1.res.val)]
        ELSE [called(s1, f, s1.res) EXCEPT !.res = Err(apply_fn(f, s1.res.val))]

recover(tx1, f, st) ==
    LET s1 == run(tx1, st)
    IN  IF s1.res.ok
        THEN [s1 EXCEPT !.res = Ok(s1.res.val)]
        ELSE [called(s1, f, s1.res) EXCEPT !.res = Ok(apply_fn(f, s1.res.val))]

\* try_recover that keeps the original error when the fallback fails.
try_recover_keeps_error(tx1, f, st) ==
    LET s1 == run(tx1, st)
    IN  IF s1.res.ok
        THEN [s1 EXCEPT !.res = Ok(s1.res.val)]
        ELSE [called(s1, f, s1.res) EXCEPT !.res =
                 IF apply_try(f, s1.res.val).ok THEN apply_try(f, s1.res.val)
                 ELSE Err(s1.res.val)]

try_recover(tx1, f, st) ==
    LET s1 == run(tx1, st)
    IN  IF s1.res.ok
        THEN [s1 EXCEPT !.res = Ok(s1.res.val)]
        ELSE [called(s1, f, s1.res) EXCEPT !.res = apply_try(f, s1.res.val)]

\* abort that applies f to an original failure as well.
abort_maps_failure(tx1, f, st) ==
    LET s1 == run(tx1, st)
    IN  [called(s1, f, s1.res) EXCEPT !.res = Err(apply_fn(f, s1.res.val))]

abort(tx1, f, st) ==
    LET s1 == run(tx1, st)
    IN  IF s1.res.ok
        THEN [called(s1, f, s1.res) EXCEPT !.res = Err(apply_fn(f, s1.res.val))]
        ELSE [s1 EXCEPT !.res = Err(s1.res.val)]

\* try_abort that turns every result of f into a failure, like abort.
try_abort_always_fails(tx1, f, st) ==
    LET s1 == run(tx1, st)
    IN  IF s1.res.ok
        THEN [called(s1, f, s1.res) EXCEPT !.res =
                 Err(apply_try(f, s1.res.val).val)]
        ELSE [s1 EXCEPT !.res = Err(s1.res.val)]

try_abort(tx1, f, st) ==
    LET s1 == run(tx1, st)
    IN  IF s1.res.ok
        THEN [called(s1, f, s1.res) EXCEPT !.res = apply_try(f, s1.res.val)]
        ELSE [s1 EXCEPT !.res = Err(s1.res.val)]

\* Tx::run of a computation value: dispatch on the struct.
run(t, st) ==
    LET s0 == Emit(st, "enter", t.node, t.op, Ok(0))
        s1 == CASE t.op = "WithTx"  -> with_tx_run(t.f, s0)
                [] t.op = "FnOnce"  -> fn_run(t.f, s0)
                [] t.op = "Map"     -> map(t.tx1, t.f, s0)
                [] t.op = "AndThen" -> and_then(t.tx1, t.f, s0)
                [] t.op = "Then"    -> then(t.tx1, t.f, s0)
                [] t.op = "OrElse"  -> or_else(t.tx1, t.f, s0)
                [] t.op = "Join"    -> join(t.tx1, t.tx2, s0)
                [] t.op = "Join3"   -> join3(t.tx1, t.tx2, t.tx3, s0)
                [] t.op = "Join4"   -> join4(t.tx1, t.tx2, t.tx3, t.tx4, s0)
                [] t.op = "MapErr"  -> map_err(t.tx1, t.f, s0)
                [] t.op = "TryMap"  -> try_map(t.tx1, t.f, s0)
                [] t.op = "Recover" -> recover(t.tx1, t.f, s0)
                [] t.op = "TryRecover" -> try_recover(t.tx1, t.f, s0)
                [] t.op = "Abort"   -> abort(t.tx1, t.f, s0)
                [] t.op = "TryAbort" -> try_abort(t.tx1, t.f, s0)
    IN  Emit(s1, "ret", t.node, t.op, s1.res)

--------------------------------------------------------------------------
(* Construction *)

\* Largest id the service gives out.
MaxId == 2

\* Identifiers and persons of the application.
PersonIds == 1..MaxId

Persons == {"alice", "bob"}

\* Option<T>: None is <<>>, Some(v) is <<v>>.
None == <<>>

Some(v) == <<v>>

\* A call of a use case: its name and its arguments (None where the use
\* case takes none).
UsecaseCall(op, id, person, date) ==
    [op |-> op, id |-> id, person |-> person, date |-> date]

\* No use case was called yet.
UsecaseIdle == uc = UsecaseCall("none", <<>>, <<>>, <<>>)

\* No second computation was run.
PairIdle == other = <<>>

\* No run_tx call was made yet.
RunTxIdle ==
    /\ rt_pc = "idle"
    /\ rt_f = <<>>
    /\ rt_ctx = <<>>
    /\ rt_res = <<>>
    /\ rt_calls = <<>>
    /\ rt_ret = <<>>
    /\ rows = <<>>
    /\ rt_n = 0

\* A call of the cached service: its name and its arguments (id is 0 and
\* persons is empty where the call takes none).
Request(op, id, persons) == [op |-> op, id |-> id, persons |-> persons]

\* An empty cache in front of an empty database, nothing called yet.
CachedIdle ==
    /\ cache = [i \in PersonIds |-> None]
    /\ db = [i \in PersonIds |-> None]
    /\ next_id = 1
    /\ req = Request("none", 0, <<>>)
    /\ spy = <<>>
    /\ reply = <<>>

Init ==
    /\ RunTxIdle
    /\ CachedIdle
    /\ UsecaseIdle
    /\ PairIdle
    /\ tx = <<>>
    /\ fresh = 1
    /\ nops = 0
    /\ ctx \in InitCtxs
    /\ trace = <<>>
    /\ result = <<>>
    /\ ran = <<>>
    /\ pc = "build"

leaf(n, kind) ==
    [op |-> "WithTx", node |-> n, ity |-> "int", f |-> [kind |-> kind, val |-> n]]

\* with_tx(f)
WithTx ==
    /\ pc = "build"
    /\ tx = <<>>
    /\ \E kind \in LeafKinds : tx' = <<leaf(fresh, kind)>>
    /\ fresh' = fresh + 1
    /\ UNCHANGED <<nops, ctx, trace, result, ran, pc, appVars>>

\* A closure FnOnce(&mut Ctx) -> Result<T, E> held as a computation value.
BareFn ==
    /\ pc = "build"
    /\ tx = <<>>
    /\ \E kind \in LeafKinds :
         tx' = <<[op |-> "FnOnce", node |-> fresh, ity |-> "int",
                  f |-> [kind |-> kind, val |-> fresh]]>>
    /\ fresh' = fresh + 1
    /\ UNCHANGED <<nops, ctx, trace, result, ran, pc, appVars>>

CanApply == pc = "build" /\ tx # <<>> /\ nops < MaxOps

\* A combinator that runs the value it builds at once.
Built_and_run(t, n) ==
    /\ tx' = <<t>>
    /\ fresh' = fresh + n
    /\ nops' = nops + 1
    /\ LET out == run(t, [ctx |-> ctx, trace |-> trace, res |-> Ok(0)])
       IN  ctx' = out.ctx /\ trace' = out.trace
    /\ UNCHANGED <<result, ran, pc, appVars>>

Built(t, n) ==
    /\ tx' = <<t>>
    /\ fresh' = fresh + n
    /\ nops' = nops + 1
    /\ UNCHANGED <<ctx, trace, result, ran, pc, appVars>>

\* The struct {tx1: self, f} a one-argument combinator returns.
Wrap(op, ity, id) ==
    [op |-> op, node |-> fresh, ity |-> ity, tx1 |-> tx[1],
     f |-> [id |-> id, own |-> fresh]]

\* Tx::map
Map ==
    /\ CanApply
    /\ tx[1].ity = "int"
    /\ \E id \in {"dbl"} : Built(Wrap("Map", "int", id), 1)

\* Tx::and_then
AndThen ==
    /\ CanApply
    /\ tx[1].ity = "int"
    /\ \E id \in {"k_ok", "k_err", "k_get"} : Built(Wrap("AndThen", "int", id), 1)

\* Tx::then
Then ==
    /\ CanApply
    /\ tx[1].ity = "int"
    /\ \E id \in {"k_match", "k_swap"} : Built(Wrap("Then", "int", id), 1)

\* Tx::or_else
OrElse ==
    /\ CanApply
    /\ tx[1].ity = "int"
    /\ \E id \in {"k_ok", "k_err"} : Built(Wrap("OrElse", "int", id), 1)

\* Tx::map_err
MapErr ==
    /\ CanApply
    /\ \E id \in {"wrap"} : Built(Wrap("MapErr", tx[1].ity, id), 1)

\* Tx::try_map
TryMap ==
    /\ CanApply
    /\ tx[1].ity = "int"
    /\ \E id \in {"chk_ok", "chk_err"} : Built(Wrap("TryMap", "int", id), 1)

\* Tx::recover
Recover ==
    /\ CanApply
    /\ tx[1].ity = "int"
    /\ \E id \in {"dflt"} : Built(Wrap("Recover", "int", id), 1)

\* Tx::try_recover
TryRecover ==
    /\ CanApply
    /\ tx[1].ity = "int"
    /\ \E id \in {"chk_ok", "chk_err"} : Built(Wrap("TryRecover", "int", id), 1)

\* The error type of every computation value.
ErrType == "int"

\* Tx::abort.  The method takes F: FnOnce(Self::Err) -> T, and the struct
\* it returns is a computation value only with F: FnOnce(Tx1::Item) ->
\* Tx1::Err.  A closure takes one type of argument, so f must satisfy both
\* bounds at once; a struct built with a closure that satisfies the first
\* bound alone cannot be run or composed and is not a value of the model.
Abort ==
    /\ CanApply
    /\ \E id \in {"bad", "fst"} :
           /\ takes(id) = ErrType
           /\ takes(id) = tx[1].ity
           /\ Built(Wrap("Abort", tx[1].ity, id), 1)

\* Tx::try_abort, under the same two bounds as Tx::abort.
TryAbort ==
    /\ CanApply
    /\ \E id \in {"chk_ok", "chk_err", "fst"} :
           /\ takes(id) = ErrType
           /\ takes(id) = tx[1].ity
           /\ Built(Wrap("TryAbort", tx[1].ity, id), 1)

\* Bodies of the leaves built in place as the other arguments of a join.
JoinLeafKinds == {"ok", "err"}

\* The arguments of a join: the held value at position pos, fresh leaves of
\* the given kinds at the other positions.
JoinArgs(pos, kinds) ==
    [i \in 1..(Len(kinds) + 1) |->
        IF i < pos THEN leaf(fresh + i, kinds[i])
        ELSE IF i = pos THEN tx[1]
        ELSE leaf(fresh + i - 1, kinds[i - 1])]

\* Tx::join
Join ==
    /\ CanApply
    /\ tx[1].ity = "int"
    /\ \E pos \in 1..2, kinds \in [1..1 -> JoinLeafKinds] :
         LET a == JoinArgs(pos, kinds)
         IN  Built([op |-> "Join", node |-> fresh, ity |-> "tup",
                    tx1 |-> a[1], tx2 |-> a[2]], 2)

\* Tx::join3
Join3 ==
    /\ CanApply
    /\ tx[1].ity = "int"
    /\ \E pos \in 1..3, kinds \in [1..2 -> JoinLeafKinds] :
         LET a == JoinArgs(pos, kinds)
         IN  Built([op |-> "Join3", node |-> fresh, ity |-> "tup",
                    tx1 |-> a[1], tx2 |-> a[2], tx3 |-> a[3]], 3)

\* Tx::join4
Join4 ==
    /\ CanApply
    /\ tx[1].ity = "int"
    /\ \E pos \in 1..4, kinds \in [1..3 -> JoinLeafKinds] :
         LET a == JoinArgs(pos, kinds)
         IN  Built([op |-> "Join4", node |-> fresh, ity |-> "tup",
                    tx1 |-> a[1], tx2 |-> a[2], tx3 |-> a[3], tx4 |-> a[4]], 4)

\* Tx::run, called once by the owner of the value
Run ==
    /\ pc = "build"
    /\ tx # <<>>
    /\ LET out == run(tx[1], [ctx |-> ctx, trace |-> <<>>, res |-> Ok(0)])
       IN  /\ ctx' = out.ctx
           /\ trace' = out.trace
           /\ result' = <<out.res>>
    /\ ran' = tx
    /\ tx' = <<>>
    /\ pc' = "done"
    /\ UNCHANGED <<fresh, nops, appVars>>

Next ==
    \/ WithTx
    \/ BareFn
    \/ Map
    \/ AndThen
    \/ Then
    \/ OrElse
    \/ Join
    \/ Join3
    \/ Join4
    \/ MapErr
    \/ TryMap
    \/ Recover
    \/ TryRecover
    \/ Abort
    \/ TryAbort
    \/ Run

Spec == Init /\ [][Next]_vars

--------------------------------------------------------------------------
(* Reading the trace of a run *)

\* The computation values a value was built from, in argument order.
Args(t) ==
    CASE t.op = "WithTx" -> <<>>
      [] t.op = "FnOnce" -> <<>>
      [] t.op = "Join"   -> <<t.tx1, t.tx2>>
      [] t.op = "Join3"  -> <<t.tx1, t.tx2, t.tx3>>
      [] t.op = "Join4"  -> <<t.tx1, t.tx2, t.tx3, t.tx4>>
      [] OTHER           -> <<t.tx1>>

RECURSIVE SubsOf(_)
\* Every value of the trees ts, each tree before its arguments.
SubsOf(ts) ==
    IF Len(ts) = 0 THEN <<>>
    ELSE <<Head(ts)>> \o SubsOf(Args(Head(ts))) \o SubsOf(Tail(ts))

\* The values of the tree that was run.
RanNodes == SubsOf(ran)

\* The positions of the trace at which node n entered / was called / returned.
Idx(ev, n) == {i \in DOMAIN trace : trace[i].ev = ev /\ trace[i].node = n}

Once(ev, n) == Cardinality(Idx(ev, n)) = 1

At(ev, n) == CHOOSE i \in DOMAIN trace : trace[i].ev = ev /\ trace[i].node = n

\* The Result node n returned.
ResOf(n) == trace[At("ret", n)].res

\* The values of kind op of the tree that was run, which run executed.
Executed(ops) ==
    LET rn == RanNodes
    IN  {k \in DOMAIN rn :
            /\ rn[k].op \in ops
            /\ \E i \in DOMAIN trace : trace[i].ev = "enter" /\ trace[i].node = rn[k].node}

JoinOps == {"Join", "Join3", "Join4"}

\* Node b ran directly after node a returned, on the context a left.
RanNext(a, b) ==
    /\ Once("ret", a) /\ Once("enter", b)
    /\ At("enter", b) = At("ret", a) + 1
    /\ trace[At("enter", b)].ctx = trace[At("ret", a)].ctx

\* Node b is the first thing node a ran, on the context a was given.
RanFirst(a, b) ==
    /\ Once("enter", a) /\ Once("enter", b)
    /\ At("enter", b) = At("enter", a) + 1
    /\ trace[At("enter", b)].ctx = trace[At("enter", a)].ctx

\* Node a returned directly after node b returned.
RetAfter(a, b) ==
    /\ Once("ret", a) /\ Once("ret", b)
    /\ At("ret", a) = At("ret", b) + 1

--------------------------------------------------------------------------
(* C1: a run of join, join3 or join4 executes every argument exactly once, *)
(* in argument order, each on the context the previous argument left,      *)
(* whatever the arguments return.                                          *)
JoinRunsEveryArgument ==
    \A k \in Executed(JoinOps) :
        LET j == RanNodes[k]
            a == Args(j)
        IN  /\ RanFirst(j.node, a[1].node)
            /\ \A i \in DOMAIN a : Once("enter", a[i].node) /\ Once("ret", a[i].node)
            /\ \A i \in 2..Len(a) : RanNext(a[i - 1].node, a[i].node)
            /\ RetAfter(j.node, a[Len(a)].node)

\* A join4 whose first argument failed and whose fourth argument was run.
JoinRunsEveryArgument_witness ==
    /\ pc = "done"
    /\ ran[1].op = "Join4"
    /\ ~ResOf(ran[1].tx1.node).ok
    /\ Once("ret", ran[1].tx4.node)
    /\ At("ret", ran[1].tx1.node) < At("enter", ran[1].tx4.node)

(* C2: join returns Ok((t, u)) when both arguments succeed, the error of   *)
(* tx1 when tx1 fails (also when tx2 fails too), and the error of tx2 when *)
(* only tx2 fails.                                                         *)
JoinResult ==
    \A k \in Executed({"Join"}) :
        LET j == RanNodes[k]
            r1 == ResOf(j.tx1.node)
            r2 == ResOf(j.tx2.node)
            r == ResOf(j.node)
        IN  /\ (r1.ok /\ r2.ok) => (r.ok /\ r.val = <<r1.val, r2.val>>)
            /\ ~r1.ok => (~r.ok /\ r.val = r1.val)
            /\ (r1.ok /\ ~r2.ok) => (~r.ok /\ r.val = r2.val)

\* A join both of whose arguments failed, with different errors.
JoinResult_witness ==
    /\ pc = "done"
    /\ ran[1].op = "Join"
    /\ ~ResOf(ran[1].tx1.node).ok
    /\ ~ResOf(ran[1].tx2.node).ok
    /\ ResOf(ran[1].tx1.node).val # ResOf(ran[1].tx2.node).val
    /\ result[1] = Err(ResOf(ran[1].tx1.node).val)

\* The arguments of a, in order, that failed.
Failed(a) == {i \in DOMAIN a : ~ResOf(a[i].node).ok}

Least(S) == CHOOSE i \in S : \A j \in S : i <= j

(* C3: join3 and join4 return Ok of the tuple of all success values in     *)
(* argument order when no argument fails, and otherwise the error of the   *)
(* failing argument with the smallest index.                               *)
Join34Result ==
    \A k \in Executed({"Join3", "Join4"}) :
        LET j == RanNodes[k]
            a == Args(j)
            r == ResOf(j.node)
        IN  IF Failed(a) = {}
            THEN r.ok /\ r.val = [i \in DOMAIN a |-> ResOf(a[i].node).val]
            ELSE ~r.ok /\ r.val = ResOf(a[Least(Failed(a))].node).val

\* A join3 whose second and third arguments failed and whose first did not.
Join34Result_witness ==
    /\ pc = "done"
    /\ ran[1].op = "Join3"
    /\ Failed(Args(ran[1])) = {2, 3}
    /\ result[1] = Err(ResOf(ran[1].tx2.node).val)

--------------------------------------------------------------------------
(* Combinators with a closure.  c is the combinator value, r1 the Result   *)
(* its tx1 returned.                                                       *)

\* The closure of c was called exactly once, directly after tx1 returned,
\* with r1's payload.
CalledOnce(c, r1) ==
    /\ Once("call", c.node)
    /\ At("call", c.node) = At("ret", c.tx1.node) + 1
    /\ trace[At("call", c.node)].op = c.f.id
    /\ trace[At("call", c.node)].res.ok = r1.ok
    /\ trace[At("call", c.node)].res.val = r1.val

NeverCalled(c) == Idx("call", c.node) = {}

\* The leaf t2 was run once, entering at trace position i on context cx.
RanLeafAt(t2, i, cx) ==
    /\ Once("enter", t2.node) /\ Once("ret", t2.node)
    /\ At("enter", t2.node) = i
    /\ At("ret", t2.node) = i + 1
    /\ trace[i].ctx = cx
    /\ trace[i + 1].res = apply_leaf(t2.f, cx).res
    /\ trace[i + 1].ctx = apply_leaf(t2.f, cx).ctx

\* c called its closure once, ran the computation t2 it returned on the
\* context tx1 left, and returned what t2 returned.
Continued(c, r1, t2) ==
    /\ CalledOnce(c, r1)
    /\ RanLeafAt(t2, At("call", c.node) + 1, trace[At("ret", c.tx1.node)].ctx)
    /\ RetAfter(c.node, t2.node)
    /\ ResOf(c.node) = ResOf(t2.node)

\* c returned r directly after tx1 returned: no closure was called and no
\* further computation ran.
Returned(c, r) ==
    /\ NeverCalled(c)
    /\ Idx("enter", 0 - c.node) = {}
    /\ RetAfter(c.node, c.tx1.node)
    /\ trace[At("ret", c.node)].ctx = trace[At("ret", c.tx1.node)].ctx
    /\ ResOf(c.node).ok = r.ok
    /\ ResOf(c.node).val = r.val

\* c called f once with r1's payload and returned r, running nothing else.
Mapped(c, r1, r) ==
    /\ CalledOnce(c, r1)
    /\ Idx("enter", 0 - c.node) = {}
    /\ Once("ret", c.node)
    /\ At("ret", c.node) = At("call", c.node) + 1
    /\ trace[At("ret", c.node)].ctx = trace[At("ret", c.tx1.node)].ctx
    /\ ResOf(c.node) = r

\* tx1 is the first thing c ran, and it ran once.
RanTx1First(c) == RanFirst(c.node, c.tx1.node) /\ Once("ret", c.tx1.node)

(* C4: and_then runs tx first; on Ok(v) it calls f once with v, runs the   *)
(* computation f returns once on the same context and returns its result;  *)
(* on Err(e) it returns Err(e), f is not called and nothing more runs.     *)
AndThenSequences ==
    \A k \in Executed({"AndThen"}) :
        LET c == RanNodes[k]
            r1 == ResOf(c.tx1.node)
        IN  /\ RanTx1First(c)
            /\ IF r1.ok THEN Continued(c, r1, apply_k(c.f, r1.val))
                        ELSE Returned(c, Err(r1.val))

\* and_then(and_then(tx, f), g): f was called and the computation it gave
\* failed, so g was never called.
AndThenSequences_witness ==
    /\ pc = "done"
    /\ ran[1].op = "AndThen" /\ ran[1].tx1.op = "AndThen"
    /\ ResOf(ran[1].tx1.tx1.node).ok
    /\ Once("call", ran[1].tx1.node)
    /\ ~ResOf(ran[1].tx1.node).ok
    /\ NeverCalled(ran[1])
    /\ ~result[1].ok

(* C5: then calls f exactly once with the full Result of tx, whether Ok or *)
(* Err, runs the computation f returns once on the same context after tx,  *)
(* and returns that computation's result.                                  *)
ThenAlwaysContinues ==
    \A k \in Executed({"Then"}) :
        LET c == RanNodes[k]
            r1 == ResOf(c.tx1.node)
        IN  /\ RanTx1First(c)
            /\ Continued(c, r1, apply_then(c.f, r1))

\* then over a failed tx: f received the Err and the second computation
\* was run and decided the result.
ThenAlwaysContinues_witness ==
    /\ pc = "done"
    /\ ran[1].op = "Then"
    /\ ~ResOf(ran[1].tx1.node).ok
    /\ Once("call", ran[1].node)
    /\ ~trace[At("call", ran[1].node)].res.ok
    /\ Once("ret", 0 - ran[1].node)
    /\ result[1] = ResOf(0 - ran[1].node)
    /\ result[1].ok

(* C6: or_else returns Ok(v) when tx returns Ok(v), f is not called and no *)
(* replacement runs; on Err(e) it calls f once with e, runs the            *)
(* replacement on the same context and returns its result, Ok or Err.      *)
OrElseReplaces ==
    \A k \in Executed({"OrElse"}) :
        LET c == RanNodes[k]
            r1 == ResOf(c.tx1.node)
        IN  /\ RanTx1First(c)
            /\ IF r1.ok THEN Returned(c, Ok(r1.val))
                        ELSE Continued(c, r1, apply_k(c.f, r1.val))

\* or_else(or_else(tx, f), g): tx failed, the replacement f gave succeeded,
\* so g was never called.
OrElseReplaces_witness ==
    /\ pc = "done"
    /\ ran[1].op = "OrElse" /\ ran[1].tx1.op = "OrElse"
    /\ ~ResOf(ran[1].tx1.tx1.node).ok
    /\ Once("call", ran[1].tx1.node)
    /\ ResOf(ran[1].tx1.node).ok
    /\ NeverCalled(ran[1])
    /\ result[1] = ResOf(0 - ran[1].tx1.node)

(* C7: map returns Ok(f(v)) when tx returns Ok(v), calling f exactly once; *)
(* when tx returns Err(e) it returns Err(e) and f is not called.           *)
MapTransformsSuccess ==
    \A k \in Executed({"Map"}) :
        LET c == RanNodes[k]
            r1 == ResOf(c.tx1.node)
        IN  /\ RanTx1First(c)
            /\ IF r1.ok THEN Mapped(c, r1, Ok(apply_fn(c.f, r1.val)))
                        ELSE Returned(c, Err(r1.val))

\* A map over a successful tx: f was called and changed the value.
MapTransformsSuccess_witness ==
    /\ pc = "done"
    /\ ran[1].op = "Map"
    /\ ResOf(ran[1].tx1.node).ok
    /\ Once("call", ran[1].node)
    /\ result[1].ok
    /\ result[1].val # ResOf(ran[1].tx1.node).val

(* C8: try_map returns exactly f(v), Ok or Err, when tx returns Ok(v);     *)
(* when tx returns Err(e) it returns Err(e) and f is not called.           *)
TryMapReturnsF ==
    \A k \in Executed({"TryMap"}) :
        LET c == RanNodes[k]
            r1 == ResOf(c.tx1.node)
        IN  /\ RanTx1First(c)
            /\ IF r1.ok THEN Mapped(c, r1, apply_try(c.f, r1.val))
                        ELSE Returned(c, Err(r1.val))

\* try_map(try_map(tx, f), g): f rejected the value of tx, so g was never
\* called and f's error is the result.
TryMapReturnsF_witness ==
    /\ pc = "done"
    /\ ran[1].op = "TryMap" /\ ran[1].tx1.op = "TryMap"
    /\ ResOf(ran[1].tx1.tx1.node).ok
    /\ Once("call", ran[1].tx1.node)
    /\ ~ResOf(ran[1].tx1.node).ok
    /\ NeverCalled(ran[1])
    /\ result[1] = ResOf(ran[1].tx1.node)

(* C9: map_err returns Ok(v) unchanged when tx returns Ok(v), without      *)
(* calling f; when tx returns Err(e) it returns Err(f(e)), calling f       *)
(* exactly once.                                                           *)
MapErrTransformsError ==
    \A k \in Executed({"MapErr"}) :
        LET c == RanNodes[k]
            r1 == ResOf(c.tx1.node)
        IN  /\ RanTx1First(c)
            /\ IF r1.ok THEN Returned(c, r1)
                        ELSE Mapped(c, r1, Err(apply_fn(c.f, r1.val)))

\* A map_err over a failed tx: f was called and changed the error.
MapErrTransformsError_witness ==
    /\ pc = "done"
    /\ ran[1].op = "MapErr"
    /\ ~ResOf(ran[1].tx1.node).ok
    /\ Once("call", ran[1].node)
    /\ ~result[1].ok
    /\ result[1].val # ResOf(ran[1].tx1.node).val

(* C10: recover always returns Ok: Ok(v) unchanged when tx returns Ok(v),  *)
(* f not being called, and Ok(f(e)) when tx returns Err(e).                *)
RecoverAlwaysOk ==
    \A k \in Executed({"Recover"}) :
        LET c == RanNodes[k]
            r1 == ResOf(c.tx1.node)
        IN  /\ RanTx1First(c)
            /\ ResOf(c.node).ok
            /\ IF r1.ok THEN Returned(c, Ok(r1.val))
                        ELSE Mapped(c, r1, Ok(apply_fn(c.f, r1.val)))

\* recover(recover(tx, f), g): tx failed and f's fallback became the value,
\* which the outer recover passed on without calling g.
RecoverAlwaysOk_witness ==
    /\ pc = "done"
    /\ ran[1].op = "Recover" /\ ran[1].tx1.op = "Recover"
    /\ ~ResOf(ran[1].tx1.tx1.node).ok
    /\ Once("call", ran[1].tx1.node)
    /\ NeverCalled(ran[1])
    /\ result[1] = Ok(apply_fn(ran[1].tx1.f, ResOf(ran[1].tx1.tx1.node).val))

(* C11: try_recover returns Ok(v) unchanged when tx returns Ok(v), f not  *)
(* being called (whatever f would return); when tx returns Err(e) it       *)
(* returns exactly f(e): Ok(fallback), or the new error instead of e.      *)
TryRecoverReturnsF ==
    \A k \in Executed({"TryRecover"}) :
        LET c == RanNodes[k]
            r1 == ResOf(c.tx1.node)
        IN  /\ RanTx1First(c)
            /\ IF r1.ok THEN Returned(c, Ok(r1.val))
                        ELSE Mapped(c, r1, apply_try(c.f, r1.val))

\* try_recover(try_recover(tx, f), g): tx failed and f failed with a new
\* error, which g then turned into a value.
TryRecoverReturnsF_witness ==
    /\ pc = "done"
    /\ ran[1].op = "TryRecover" /\ ran[1].tx1.op = "TryRecover"
    /\ ~ResOf(ran[1].tx1.tx1.node).ok
    /\ ~ResOf(ran[1].tx1.node).ok
    /\ ResOf(ran[1].tx1.node).val # ResOf(ran[1].tx1.tx1.node).val
    /\ Once("call", ran[1].node)
    /\ result[1].ok

(* C12: abort always returns Err: Err(f(v)) when tx returns Ok(v), and     *)
(* Err(e) unchanged when tx returns Err(e), f then not being called.       *)
AbortAlwaysErr ==
    \A k \in Executed({"Abort"}) :
        LET c == RanNodes[k]
            r1 == ResOf(c.tx1.node)
        IN  /\ RanTx1First(c)
            /\ ~ResOf(c.node).ok
            /\ IF r1.ok THEN Mapped(c, r1, Err(apply_fn(c.f, r1.val)))
                        ELSE Returned(c, Err(r1.val))

\* abort(abort(tx, f), g): tx succeeded and f made it a failure, which the
\* outer abort passed on without calling g.
AbortAlwaysErr_witness ==
    /\ pc = "done"
    /\ ran[1].op = "Abort" /\ ran[1].tx1.op = "Abort"
    /\ ResOf(ran[1].tx1.tx1.node).ok
    /\ Once("call", ran[1].tx1.node)
    /\ NeverCalled(ran[1])
    /\ result[1] = Err(apply_fn(ran[1].tx1.f, ResOf(ran[1].tx1.tx1.node).val))

(* C13: try_abort returns exactly f(v) when tx returns Ok(v), a new item   *)
(* or a new error; when tx returns Err(e) it returns Err(e) unchanged and  *)
(* f is not called.                                                        *)
TryAbortReturnsF ==
    \A k \in Executed({"TryAbort"}) :
        LET c == RanNodes[k]
            r1 == ResOf(c.tx1.node)
        IN  /\ RanTx1First(c)
            /\ IF r1.ok THEN Mapped(c, r1, apply_try(c.f, r1.val))
                        ELSE Returned(c, Err(r1.val))

\* try_abort(try_abort(tx, f), g): f gave a new item, g rejected it.
TryAbortReturnsF_witness ==
    /\ pc = "done"
    /\ ran[1].op = "TryAbort" /\ ran[1].tx1.op = "TryAbort"
    /\ ResOf(ran[1].tx1.tx1.node).ok
    /\ ResOf(ran[1].tx1.node).ok
    /\ ResOf(ran[1].tx1.node).val # ResOf(ran[1].tx1.tx1.node).val
    /\ Once("call", ran[1].node)
    /\ ~result[1].ok

(* C14: running with_tx(f), or a bare closure f, on ctx calls f exactly    *)
(* once on ctx and returns exactly f(ctx); building the value calls        *)
(* nothing.                                                                *)
LeafRunsFunctionOnce ==
    /\ pc = "build" => (trace = <<>> /\ result = <<>> /\ ctx \in InitCtxs)
    /\ \A k \in Executed({"WithTx", "FnOnce"}) :
           LET t == RanNodes[k]
           IN  RanLeafAt(t, At("enter", t.node), trace[At("enter", t.node)].ctx)

\* A bare closure and a with_tx leaf that reads the context were both run:
\* the leaf saw the closure's write and returned the length of the context.
LeafRunsFunctionOnce_witness ==
    /\ pc = "done"
    /\ ran[1].op = "Join"
    /\ ran[1].tx1.op = "WithTx" /\ ran[1].tx1.f.kind = "ok"
    /\ ran[1].tx2.op = "FnOnce" /\ ran[1].tx2.f.kind = "get"
    /\ trace[1].ctx = <<0>>
    /\ ResOf(ran[1].tx2.node) = Ok(2)
    /\ ctx = <<0, ran[1].tx1.node, ran[1].tx2.node>>

--------------------------------------------------------------------------
(* C15: applying a combinator executes no leaf function, calls no closure  *)
(* and leaves the context unchanged; only run does.                        *)
CombinatorsRunNothing ==
    [][pc' = "build" => (trace' = trace /\ ctx' = ctx /\ result' = result)]_vars

\* A value built with two combinators over four leaves, nothing run yet.
CombinatorsRunNothing_witness ==
    /\ pc = "build"
    /\ tx # <<>>
    /\ tx[1].op = "MapErr" /\ tx[1].tx1.op = "Join4"
    /\ trace = <<>>
    /\ result = <<>>
    /\ ctx \in InitCtxs

\* The nodes that appear in the trace.
TraceNodes == {trace[i].node : i \in DOMAIN trace}

\* Node m returned before node n entered.
Before(m, n) == At("ret", m) < At("enter", n)

\* Node n ran inside node m.
Inside(n, m) ==
    At("enter", m) < At("enter", n) /\ At("ret", n) < At("ret", m)

\* The nodes of kind WithTx or FnOnce in the trace: the leaf functions run.
LeafRuns ==
    {i \in DOMAIN trace : trace[i].ev = "enter" /\ trace[i].op \in {"WithTx", "FnOnce"}}

(* C16: a run executes the tree depth first, left to right, one            *)
(* sub-computation at a time: an argument runs inside its combinator, a    *)
(* sub-computation starts only after the one to its left has returned, and *)
(* two sub-computations never hold the context at once unless one is part  *)
(* of the other.                                                           *)
DepthFirstLeftToRight ==
    LET nodes == TraceNodes
        \* f @@ <<>> equals f; written so that the function is tabulated once.
        ent == [n \in nodes |-> At("enter", n)] @@ <<>>
        ret == [n \in nodes |-> At("ret", n)] @@ <<>>
        before(m, n) == ret[m] < ent[n]
        inside(n, m) == ent[m] < ent[n] /\ ret[n] < ret[m]
        rn == RanNodes
    IN  /\ \A n \in nodes : Once("enter", n) /\ Once("ret", n)
        /\ \A m, n \in nodes :
               m # n => \/ before(m, n) \/ before(n, m)
                        \/ inside(m, n) \/ inside(n, m)
        /\ \A i, j \in LeafRuns :
               i < j => ret[trace[i].node] < j
        /\ \A k \in DOMAIN rn :
               LET c == rn[k]
                   a == Args(c)
                   made == 0 - c.node
               IN  (c.node \in nodes /\ a # <<>>) =>
                       /\ \A i \in DOMAIN a :
                              a[i].node \in nodes => inside(a[i].node, c.node)
                       /\ \A i, j \in DOMAIN a :
                              (i < j /\ a[j].node \in nodes) =>
                                  (a[i].node \in nodes /\ before(a[i].node, a[j].node))
                       /\ made \in nodes =>
                              /\ inside(made, c.node)
                              /\ before(a[1].node, made)
        /\ \A k1, k2 \in DOMAIN rn :
               (k1 < k2 /\ rn[k1].node \in nodes /\ rn[k2].node \in nodes) =>
                   ent[rn[k1].node] < ent[rn[k2].node]

\* join3(a, and_then(b, f), c): a returned before and_then entered, b and
\* then the computation f gave ran inside and_then, c entered after it.
DepthFirstLeftToRight_witness ==
    /\ pc = "done"
    /\ ran[1].op = "Join3" /\ ran[1].tx2.op = "AndThen"
    /\ (0 - ran[1].tx2.node) \in TraceNodes
    /\ Before(ran[1].tx1.node, ran[1].tx2.node)
    /\ Inside(ran[1].tx2.tx1.node, ran[1].tx2.node)
    /\ Before(ran[1].tx2.tx1.node, 0 - ran[1].tx2.node)
    /\ Inside(0 - ran[1].tx2.node, ran[1].tx2.node)
    /\ Before(ran[1].tx2.node, ran[1].tx3.node)
    /\ Cardinality(LeafRuns) = 4

\* The node ids of a sequence of values are pairwise different.
DistinctNodes(ns) == \A i, j \in DOMAIN ns : ns[i].node = ns[j].node => i = j

OverFailure(c) ==
    \E i \in DOMAIN Args(c) :
        Idx("ret", Args(c)[i].node) # {} /\ ~ResOf(Args(c)[i].node).ok

\* C18 as stated: every combinator other than recover and try_recover,
\* applied to a computation that returns Err, does not return Ok.
OnlyRecoverMakesSuccess ==
    \A k \in Executed({"Map", "AndThen", "Then", "OrElse", "MapErr", "TryMap",
                       "Abort", "TryAbort", "Join", "Join3", "Join4"}) :
        OverFailure(RanNodes[k]) => ~ResOf(RanNodes[k].node).ok

(* C18, amended: recover, try_recover, or_else and then are the only       *)
(* combinators that can turn a failure into a success: map, and_then,      *)
(* join, join3, join4, map_err, try_map, abort and try_abort, applied to a *)
(* computation that returns Err, do not return Ok.                         *)
OnlyRecoveringCombinatorsMakeSuccess ==
    \A k \in Executed({"Map", "AndThen", "MapErr", "TryMap",
                       "Abort", "TryAbort", "Join", "Join3", "Join4"}) :
        OverFailure(RanNodes[k]) => ~ResOf(RanNodes[k].node).ok

\* or_else(and_then(tx, f), g): tx failed, and_then returned that failure,
\* and or_else turned it into a success.
OnlyRecoveringCombinatorsMakeSuccess_witness ==
    /\ pc = "done"
    /\ ran[1].op = "OrElse" /\ ran[1].tx1.op = "AndThen"
    /\ ~ResOf(ran[1].tx1.tx1.node).ok
    /\ ~ResOf(ran[1].tx1.node).ok
    /\ result[1].ok

\* The held value's item type is not its error type.
ItemIsNotErr == tx # <<>> /\ tx[1].ity # ErrType

(* C27: abort and try_abort take a function of the success item, so they   *)
(* can be applied to, and run on, a computation whose item type and error  *)
(* type differ.                                                            *)
AbortTakesFunctionOfItem ==
    (CanApply /\ ItemIsNotErr) => (ENABLED Abort /\ ENABLED TryAbort)

\* The result of a join, a tuple, can be given to map_err, which takes a
\* function of the error, and to neither abort nor try_abort.
AbortTakesFunctionOfItem_witness ==
    /\ CanApply
    /\ tx[1].op = "Join"
    /\ ItemIsNotErr
    /\ ENABLED MapErr
    /\ ~ENABLED Abort
    /\ ~ENABLED TryAbort

\* What the code allows instead: every abort and try_abort that is run
\* holds a value whose item type is its error type.
AbortOnlyWhereItemIsErr ==
    \A k \in Executed({"Abort", "TryAbort"}) : RanNodes[k].tx1.ity = ErrType

LeafOps == {"WithTx", "FnOnce"}

\* A leaf function returned at position i of the trace.
LeafReturned(i) == trace[i].ev = "ret" /\ trace[i].op \in LeafOps

\* What the leaf that returned at position i wrote to the context.  A leaf
\* of the tree writes its node; a leaf made by a closure was entered right
\* after the closure was called, and writes what the closure gave it.
Written(i) ==
    IF trace[i].node > 0 THEN trace[i].node
    ELSE LET call == trace[i - 2]
             f == [id |-> call.op, own |-> call.node]
         IN  IF f.id \in {"k_match", "k_swap"}
             THEN apply_then(f, call.res).f.val
             ELSE apply_k(f, call.res.val).f.val

(* C28: all steps of one run share one context.  The context changes only  *)
(* when a leaf function runs, which adds its write to the context it was   *)
(* given; between two leaves nothing changes it, so every sub-computation  *)
(* starts on the context the one executed before it left, and the context  *)
(* after the run is the initial one with the leaves' writes in the order   *)
(* of execution.                                                           *)
OneSharedContext ==
    pc = "done" =>
        /\ trace[1].ctx \in InitCtxs
        /\ \A i \in 2..Len(trace) :
               IF LeafReturned(i)
               THEN trace[i].ctx = Append(trace[i - 1].ctx, Written(i))
               ELSE trace[i].ctx = trace[i - 1].ctx
        /\ ctx = trace[Len(trace)].ctx

\* A join of a failing and_then and a leaf, run on <<0>>: the leaf made by
\* the closure saw the write of the first leaf, and the second argument of
\* the join saw both.
OneSharedContext_witness ==
    /\ pc = "done"
    /\ ran[1].op = "Join"
    /\ ran[1].tx1.op = "AndThen" /\ ran[1].tx1.f.id = "k_err"
    /\ ran[1].tx1.tx1.op = "WithTx" /\ ran[1].tx1.tx1.f.kind = "ok"
    /\ trace[1].ctx = <<0>>
    /\ Len(ctx) = 4
    /\ ctx[2] = ran[1].tx1.tx1.node
    /\ ctx[4] = ran[1].tx2.node
    /\ ~result[1].ok

RECURSIVE writes(_)

\* The writes of the leaf functions that returned up to position i of the
\* trace, in the order of their return.
writes(i) ==
    IF i = 0 THEN <<>>
    ELSE IF LeafReturned(i) THEN Append(writes(i - 1), Written(i))
    ELSE writes(i - 1)

\* The combinators that hold one computation and a closure of its payload.
ClosureOnlyOps == {"Map", "MapErr", "TryMap", "Recover", "TryRecover", "Abort", "TryAbort"}

(* C29: the combinators never undo a change of the context.  Whatever the  *)
(* run returns, and so when it returns Err, the context holds the write of *)
(* every leaf that was executed, those before the failing step and, in a   *)
(* join, those after it; and map, map_err, try_map, recover, try_recover,  *)
(* abort and try_abort return with the context as the computation they     *)
(* hold left it, whether or not the closure was called.                    *)
ContextChangesAreKept ==
    pc = "done" =>
        /\ ctx = trace[1].ctx \o writes(Len(trace))
        /\ \A i \in DOMAIN trace :
               (trace[i].ev = "ret" /\ trace[i].op \in ClosureOnlyOps) =>
                   LET j == IF trace[i - 1].ev = "call" THEN i - 2 ELSE i - 1
                   IN  /\ trace[j].ev = "ret"
                       /\ trace[i].ctx = trace[j].ctx

\* join(and_then(leaf, k_err), leaf) returned the error of the leaf the
\* closure made; the context holds the writes of the leaf before it, of the
\* failing leaf itself and of the join's second argument after it.
ContextChangesAreKept_witness ==
    /\ pc = "done"
    /\ ran[1].op = "Join"
    /\ ran[1].tx1.op = "AndThen" /\ ran[1].tx1.f.id = "k_err"
    /\ ran[1].tx2.op = "WithTx" /\ ran[1].tx2.f.kind = "ok"
    /\ ResOf(ran[1].tx1.tx1.node).ok
    /\ ~result[1].ok
    /\ result[1] = ResOf(ran[1].tx1.node)
    /\ Len(writes(Len(trace))) = 3
    /\ ctx = trace[1].ctx \o <<ran[1].tx1.tx1.node,
                                result[1].val,
                                ran[1].tx2.node>>

--------------------------------------------------------------------------
(* join(tx1, tx2) next to tx1.and_then(|a| tx2.map(|b| (a, b))): the two   *)
(* are built from the same two computations and run on the same context.   *)

\* The one-argument combinators an operand may be wrapped in, with the
\* closure given to each.
Wrappers ==
    {<<"Map", "dbl">>, <<"AndThen", "k_get">>, <<"AndThen", "k_err">>,
     <<"OrElse", "k_ok">>, <<"Recover", "dflt">>, <<"Abort", "bad">>}

\* An operand: the leaf n of the given kind, bare (w = <<>>) or wrapped in
\* the combinator w[1], of node n + 1.
operand(n, kind, w) ==
    IF w = <<>> THEN leaf(n, kind)
    ELSE [op |-> w[1][1], node |-> n + 1, ity |-> "int", tx1 |-> leaf(n, kind),
          f |-> [id |-> w[1][2], own |-> n + 1]]

\* join(tx1, tx2) and tx1.and_then(|a| tx2.map(|b| (a, b))) are built.
JoinAndAndThenMap ==
    /\ pc = "build"
    /\ tx = <<>>
    /\ \E k1, k2 \in LeafKinds, w1, w2 \in {<<>>} \cup {<<w>> : w \in Wrappers} :
          LET tx1 == operand(1, k1, w1)
              tx2 == operand(3, k2, w2)
          IN  tx' = <<[op |-> "Join", node |-> 5, ity |-> "tup",
                       tx1 |-> tx1, tx2 |-> tx2],
                      [op |-> "AndThen", node |-> 5, ity |-> "tup", tx1 |-> tx1,
                       f |-> [id |-> "pair_with", own |-> 5, tx2 |-> tx2]]>>
    /\ fresh' = 6
    /\ UNCHANGED <<nops, ctx, trace, result, ran, pc, appVars>>

\* Tx::run of both, each on the same initial context.
RunBoth ==
    /\ pc = "build"
    /\ Len(tx) = 2
    /\ LET st == [ctx |-> ctx, trace |-> <<>>, res |-> Ok(0)]
           out == run(tx[1], st)
       IN  /\ ctx' = out.ctx
           /\ trace' = out.trace
           /\ result' = <<out.res>>
           /\ other' = run(tx[2], st)
    /\ ran' = tx
    /\ tx' = <<>>
    /\ pc' = "done"
    /\ UNCHANGED <<fresh, nops, runTxVars, cachedVars, usecaseVars>>

InitPair ==
    /\ RunTxIdle
    /\ CachedIdle
    /\ UsecaseIdle
    /\ PairIdle
    /\ tx = <<>>
    /\ fresh = 1
    /\ nops = 0
    /\ ctx \in InitCtxs
    /\ trace = <<>>
    /\ result = <<>>
    /\ ran = <<>>
    /\ pc = "build"

NextPair ==
    \/ JoinAndAndThenMap
    \/ RunBoth

SpecPair == InitPair /\ [][NextPair]_vars

\* The nodes entered in trace t.
Entered(t) == {t[i].node : i \in {j \in DOMAIN t : t[j].ev = "enter"}}

\* The nodes of a computation value and of what its closures make.
NodesOf(t) == {t.node, 0 - t.node} \cup (IF t.op \in LeafOps THEN {} ELSE {t.tx1.node})

(* C30: for all outcomes of tx1 and tx2, join(tx1, tx2).run returns the    *)
(* same Result as tx1.and_then(|a| tx2.map(|b| (a, b))).run.  When tx1     *)
(* succeeded both ran the same computations and left the same context;     *)
(* when tx1 failed the and_then stopped after tx1, and the join went on to *)
(* run tx2 on the context the and_then ended with.                         *)
JoinIsAndThenMap ==
    (pc = "done" /\ other # <<>>) =>
        LET tx1 == ran[1].tx1
            tx2 == ran[1].tx2
            after1 == trace[At("ret", tx1.node)]
        IN  /\ result[1].ok = other.res.ok
            /\ result[1].val = other.res.val
            /\ IF after1.res.ok
               THEN /\ ctx = other.ctx
                    /\ Entered(trace) \cup {0 - ran[1].node} = Entered(other.trace)
               ELSE /\ other.ctx = after1.ctx
                    /\ Entered(other.trace) \cap NodesOf(tx2) = {}
                    /\ tx2.node \in Entered(trace)
                    /\ ctx = run(tx2, [ctx |-> other.ctx, trace |-> <<>>,
                                        res |-> Ok(0)]).ctx
                    /\ Entered(trace) = Entered(other.trace) \cup
                           Entered(run(tx2, [ctx |-> other.ctx, trace |-> <<>>,
                                             res |-> Ok(0)]).trace)

\* tx1 failed and tx2 succeeded: both returned the error of tx1, and only
\* the join ran tx2 and holds its write.
JoinIsAndThenMap_witness ==
    /\ pc = "done"
    /\ other # <<>>
    /\ ~ResOf(ran[1].tx1.node).ok
    /\ ResOf(ran[1].tx2.node).ok
    /\ result[1] = Err(ResOf(ran[1].tx1.node).val)
    /\ other.res = result[1]
    /\ Len(ctx) > Len(other.ctx)

--------------------------------------------------------------------------
(* tx.and_then(f).and_then(g) next to tx.and_then(|v| f(v).and_then(g)):   *)
(* the two are built from the same computation and the same two closures   *)
(* and run on the same context.                                            *)

\* The closures given to and_then.
Continuations == {"k_ok", "k_err", "k_get"}

\* tx.and_then(f).and_then(g) and tx.and_then(|v| f(v).and_then(g)) are
\* built; f and g are the same closures in both.
AndThenTwice ==
    /\ pc = "build"
    /\ tx = <<>>
    /\ \E k \in LeafKinds, w \in {<<>>} \cup {<<x>> : x \in Wrappers},
          idf, idg \in Continuations :
          LET tx1 == operand(1, k, w)
              f == [id |-> idf, own |-> 3]
              g == [id |-> idg, own |-> 4]
          IN  tx' = <<combinator("AndThen", 6, combinator("AndThen", 5, tx1, f), g),
                      combinator("AndThen", 6, tx1,
                                 [id |-> "f_and_then_g", own |-> 6, f |-> f, g |-> g])>>
    /\ fresh' = 7
    /\ UNCHANGED <<nops, ctx, trace, result, ran, pc, appVars>>

NextAssoc ==
    \/ AndThenTwice
    \/ RunBoth

SpecAssoc == InitPair /\ [][NextAssoc]_vars

\* The positions of trace t at which a leaf function was entered.
LeafEntries(t) == {i \in DOMAIN t : t[i].ev = "enter" /\ t[i].op \in LeafOps}

RECURSIVE picked(_, _, _)

\* The events of trace t at the positions S up to i, in order: the node and
\* the context it saw.
picked(t, S, i) ==
    IF i = 0 THEN <<>>
    ELSE IF i \in S
         THEN Append(picked(t, S, i - 1),
                     [node |-> t[i].node, res |-> t[i].res, ctx |-> t[i].ctx])
    ELSE picked(t, S, i - 1)

(* C31: and_then is associative.  tx.and_then(f).and_then(g) and           *)
(* tx.and_then(|v| f(v).and_then(g)) return the same Result, run the same  *)
(* leaves in the same order, each on the same context, and leave the same  *)
(* context.                                                                *)
AndThenIsAssociative ==
    (pc = "done" /\ other # <<>>) =>
        /\ result[1].ok = other.res.ok
        /\ result[1].val = other.res.val
        /\ ctx = other.ctx
        /\ picked(trace, LeafEntries(trace), Len(trace))
             = picked(other.trace, LeafEntries(other.trace), Len(other.trace))

\* tx succeeded, f made a leaf that succeeded and g one that failed: three
\* leaves ran in both, and both returned the failure of the last.
AndThenIsAssociative_witness ==
    /\ pc = "done"
    /\ other # <<>>
    /\ ran[1].tx1.f.id = "k_get"
    /\ ran[1].f.id = "k_err"
    /\ Cardinality(LeafEntries(other.trace)) = 3
    /\ ~result[1].ok
    /\ other.res = result[1]
    /\ Len(ctx) = Len(trace[1].ctx) + 3

--------------------------------------------------------------------------
(* PersonServiceImpl::run_tx (src/app/main.rs).  The service starts a      *)
(* database transaction, passes it to the closure f, and commits or rolls  *)
(* back on f's result.  Starting, committing and rolling back are calls to *)
(* the database and may fail.  A closure writes one value in the           *)
(* transaction and returns Ok or Err of it.                                *)

\* Largest number of run_tx calls on one service.
MaxCalls == 3

\* Result<T, ServiceError> as [ok, err, val].
ServiceOk(v) == [ok |-> TRUE, err |-> "none", val |-> v]

TransactionFailed(e) == [ok |-> FALSE, err |-> "TransactionFailed", val |-> e]

ServiceUnavailable == [ok |-> FALSE, err |-> "ServiceUnavailable", val |-> 0]

\* The closures a caller passes: [ok, val] writes val and returns Ok(val)
\* or Err(val).
RunTxClosures == {[ok |-> o, val |-> v] : o \in BOOLEAN, v \in {1, 2}}

\* A call made by run_tx and whether it succeeded.
Called(op, ok) == [op |-> op, ok |-> ok]

\* run_tx up to the match on db_client.transaction().
run_tx_start ==
    /\ rt_pc \in {"idle", "returned"}
    /\ rt_n < MaxCalls
    /\ \E g \in RunTxClosures, started \in BOOLEAN :
           /\ rt_calls' = <<Called("transaction", started)>>
           /\ IF started
              THEN /\ rt_ctx' = <<<<>>>>
                   /\ rt_f' = <<g>>
                   /\ rt_ret' = <<>>
                   /\ rt_pc' = "started"
              ELSE /\ rt_ctx' = <<>>
                   /\ rt_f' = <<>>
                   /\ rt_ret' = <<ServiceUnavailable>>
                   /\ rt_pc' = "returned"
    /\ rt_res' = <<>>
    /\ rt_n' = rt_n + 1
    /\ UNCHANGED <<rows, libVars, cachedVars, usecaseVars, pairVars>>

\* let res = f(&mut usecase, &mut ctx)
run_tx_call ==
    /\ rt_pc = "started"
    /\ rt_res' = <<IF rt_f[1].ok THEN Ok(rt_f[1].val) ELSE Err(rt_f[1].val)>>
    /\ rt_ctx' = <<Append(rt_ctx[1], rt_f[1].val)>>
    /\ rt_f' = <<>>
    /\ rt_calls' = Append(rt_calls, Called("f", rt_f[1].ok))
    /\ rt_pc' = "called"
    /\ UNCHANGED <<rt_ret, rows, rt_n, libVars, cachedVars, usecaseVars, pairVars>>

\* The Ok(v) arm: ctx.commit().expect("commit"), then Ok(v).
run_tx_commit ==
    /\ rt_pc = "called"
    /\ rt_res[1].ok
    /\ \E committed \in BOOLEAN :
           /\ rt_calls' = Append(rt_calls, Called("commit", committed))
           /\ IF committed
              THEN /\ rows' = rows \o rt_ctx[1]
                   /\ rt_ret' = <<ServiceOk(rt_res[1].val)>>
                   /\ rt_pc' = "returned"
              ELSE /\ rows' = rows
                   /\ rt_ret' = <<>>
                   /\ rt_pc' = "panicked"
    /\ rt_ctx' = <<>>
    /\ UNCHANGED <<rt_f, rt_res, rt_n, libVars, cachedVars, usecaseVars, pairVars>>

\* The Err(e) arm: ctx.rollback().expect("rollback"), then
\* Err(TransactionFailed(e)).
run_tx_rollback ==
    /\ rt_pc = "called"
    /\ ~rt_res[1].ok
    /\ \E rolledback \in BOOLEAN :
           /\ rt_calls' = Append(rt_calls, Called("rollback", rolledback))
           /\ IF rolledback
              THEN /\ rt_ret' = <<TransactionFailed(rt_res[1].val)>>
                   /\ rt_pc' = "returned"
              ELSE /\ rt_ret' = <<>>
                   /\ rt_pc' = "panicked"
    /\ rt_ctx' = <<>>
    /\ UNCHANGED <<rt_f, rt_res, rows, rt_n, libVars, cachedVars, usecaseVars, pairVars>>

\* The library is not used under the application's specifications.
LibIdle ==
    /\ tx = <<>>
    /\ fresh = 1
    /\ nops = 0
    /\ ctx = <<>>
    /\ trace = <<>>
    /\ result = <<>>
    /\ ran = <<>>
    /\ pc = "build"

InitRunTx == LibIdle /\ CachedIdle /\ UsecaseIdle /\ PairIdle /\ RunTxIdle

NextRunTx ==
    \/ run_tx_start
    \/ run_tx_call
    \/ run_tx_commit
    \/ run_tx_rollback

SpecRunTx == InitRunTx /\ [][NextRunTx]_vars

\* The positions in rt_calls of the calls of op.
CallsOf(op) == {i \in DOMAIN rt_calls : rt_calls[i].op = op}

\* run_tx is over: it returned or it panicked.
RunTxOver == rt_pc \in {"returned", "panicked"}

(* C19: run_tx starts one transaction, calls f once with it, then performs *)
(* exactly one of commit and rollback: commit iff f returned Ok(v), and    *)
(* then it returns Ok(v); rollback iff f returned Err(e), and then it      *)
(* returns Err(TransactionFailed(e)).  If the transaction cannot be        *)
(* started it returns Err(ServiceUnavailable) and f is never called.       *)
RunTxCommitsOrRollsBack ==
    /\ rt_pc # "idle" => (CallsOf("transaction") = {1})
    /\ Cardinality(CallsOf("f")) <= 1
    /\ Cardinality(CallsOf("commit") \cup CallsOf("rollback")) <= 1
    /\ (RunTxOver /\ rt_calls[1].ok) =>
           /\ CallsOf("f") = {2}
           /\ CallsOf("commit") \cup CallsOf("rollback") = {3}
           /\ CallsOf("commit") = {3} <=> rt_res[1].ok
           /\ rt_res[1].ok =>
                  /\ rt_ret # <<>>
                  /\ rt_ret[1].ok
                  /\ rt_ret[1].val = rt_res[1].val
           /\ ~rt_res[1].ok =>
                  /\ rt_ret # <<>>
                  /\ rt_ret[1].err = "TransactionFailed"
                  /\ rt_ret[1].val = rt_res[1].val
    /\ (RunTxOver /\ ~rt_calls[1].ok) =>
           /\ rt_calls = <<Called("transaction", FALSE)>>
           /\ rt_ret = <<ServiceUnavailable>>

\* The same for the calls that returned: what run_tx does when commit and
\* rollback succeed.
RunTxReturned ==
    /\ rt_pc # "idle" => (CallsOf("transaction") = {1})
    /\ Cardinality(CallsOf("f")) <= 1
    /\ Cardinality(CallsOf("commit") \cup CallsOf("rollback")) <= 1
    /\ (rt_pc = "returned" /\ rt_calls[1].ok) =>
           /\ CallsOf("f") = {2}
           /\ CallsOf("commit") \cup CallsOf("rollback") = {3}
           /\ CallsOf("commit") = {3} <=> rt_res[1].ok
           /\ rt_res[1].ok =>
                  (rt_ret[1].ok /\ rt_ret[1].val = rt_res[1].val)
           /\ ~rt_res[1].ok =>
                  (rt_ret[1].err = "TransactionFailed" /\ rt_ret[1].val = rt_res[1].val)
    /\ (rt_pc = "returned" /\ ~rt_calls[1].ok) =>
           /\ rt_calls = <<Called("transaction", FALSE)>>
           /\ rt_ret = <<ServiceUnavailable>>
    /\ rt_pc = "panicked" =>
           /\ Len(rt_calls) = 3
           /\ ~rt_calls[3].ok
           /\ rt_ret = <<>>

\* f returned Ok(2) in the second call, the commit failed, and run_tx
\* panicked without returning; the first call's write is all the database has.
RunTxCommitsOrRollsBack_witness ==
    /\ rt_pc = "panicked"
    /\ rt_n = 2
    /\ rt_res = <<Ok(2)>>
    /\ rt_calls = <<Called("transaction", TRUE), Called("f", TRUE),
                    Called("commit", FALSE)>>
    /\ rt_ret = <<>>
    /\ rows = <<1>>

--------------------------------------------------------------------------
(* PersonCachedService (src/app/cached_service.rs): default methods that   *)
(* put a cache in front of a PersonService.  The cache and the service are *)
(* the doubles of the file's tests: a map each, and every operation may    *)
(* also return an error and do nothing, as the mocks' *_result fields do.  *)

\* The errors PersonService::find can return.
ServiceErrors == {"TransactionFailed", "ServiceUnavailable"}

\* Result<Option<Person>, ServiceError> as [ok, err, val].
Found(o) == [ok |-> TRUE, err |-> "none", val |-> o]

Failed_with(e) == [ok |-> FALSE, err |-> e, val |-> None]

\* One operation of the cache or the service in the spy: its name, its
\* arguments (person is None where the operation takes none) and its result.
Op(name, id, person, res) == [op |-> name, id |-> id, person |-> person, res |-> res]

\* PersonCao::find under run_tx: the cached entry, or an error.
cao_find(id, fails) ==
    IF fails THEN Failed_with("CaoError") ELSE Found(cache[id])

\* PersonService::find: the database's entry, or an error.
find(id, fails, e) ==
    IF fails THEN Failed_with(e) ELSE Found(db[id])

\* PersonCao::load under run_tx: Ok(()) or an error.
cao_load(fails) ==
    IF fails THEN Failed_with("CaoError") ELSE Found(None)

\* The process is running: no call has panicked.
Alive == req.op = "none" \/ reply # <<>>

\* cached_find that never loads what the database returned.
cached_find_never_loads(id) ==
    \E cf, sf \in BOOLEAN, e \in ServiceErrors :
        LET c == cao_find(id, cf)
            r == find(id, sf, e)
        IN  /\ IF ~c.ok
               THEN /\ spy' = <<Op("cao.find", id, None, c)>>
                    /\ reply' = <<Failed_with("ServiceUnavailable")>>
               ELSE IF c.val # None
               THEN /\ spy' = <<Op("cao.find", id, None, c)>>
                    /\ reply' = <<Found(c.val)>>
               ELSE /\ spy' = <<Op("cao.find", id, None, c), Op("find", id, None, r)>>
                    /\ reply' = <<r>>
            /\ Alive
            /\ req' = Request("cached_find", id, <<>>)
            /\ UNCHANGED <<cache, db, next_id, libVars, runTxVars, usecaseVars, pairVars>>

cached_find(id) ==
    \E cf, sf, lf \in BOOLEAN, e \in ServiceErrors :
        LET c == cao_find(id, cf)
            r == find(id, sf, e)
            l == cao_load(lf)
        IN  /\ IF ~c.ok
               THEN /\ spy' = <<Op("cao.find", id, None, c)>>
                    /\ reply' = <<Failed_with("ServiceUnavailable")>>
                    /\ cache' = cache
               ELSE IF c.val # None
               THEN /\ spy' = <<Op("cao.find", id, None, c)>>
                    /\ reply' = <<Found(c.val)>>
                    /\ cache' = cache
               ELSE IF ~r.ok \/ r.val = None
               THEN /\ spy' = <<Op("cao.find", id, None, c), Op("find", id, None, r)>>
                    /\ reply' = <<r>>
                    /\ cache' = cache
               ELSE /\ spy' = <<Op("cao.find", id, None, c), Op("find", id, None, r),
                                Op("cao.load", id, r.val, l)>>
                    /\ reply' = <<IF l.ok THEN r ELSE Failed_with("ServiceUnavailable")>>
                    /\ cache' = IF l.ok THEN [cache EXCEPT ![id] = r.val] ELSE cache
            /\ Alive
            /\ req' = Request("cached_find", id, <<>>)
            /\ UNCHANGED <<db, next_id, libVars, runTxVars, usecaseVars, pairVars>>

\* The service's register: it gives the person the next id and stores it,
\* or it fails without effect.
register(p, fails, e) ==
    IF fails THEN Failed_with(e) ELSE Found(<<next_id, p>>)

\* The cache after load(id, person) returned res.
loaded(c, id, p, res) == IF res.ok THEN [c EXCEPT ![id] = Some(p)] ELSE c

\* cached_register that returns register's result without loading the cache.
cached_register_skips_load(p) ==
    \E rf \in BOOLEAN, e \in ServiceErrors :
        LET r == register(p, rf, e)
        IN  /\ Alive
            /\ next_id <= MaxId
            /\ req' = Request("cached_register", 0, <<p>>)
            /\ spy' = <<Op("register", 0, Some(p), r)>>
            /\ reply' = <<r>>
            /\ db' = IF r.ok THEN [db EXCEPT ![next_id] = Some(p)] ELSE db
            /\ next_id' = IF r.ok THEN next_id + 1 ELSE next_id
            /\ UNCHANGED <<cache, libVars, runTxVars, usecaseVars, pairVars>>

\* The arguments name, birth_date, death_date and data make up the person p.
cached_register(p) ==
    \E rf, lf \in BOOLEAN, e \in ServiceErrors :
        LET r == register(p, rf, e)
            l == cao_load(lf)
        IN  /\ Alive
            /\ next_id <= MaxId
            /\ req' = Request("cached_register", 0, <<p>>)
            /\ IF ~r.ok
               THEN /\ spy' = <<Op("register", 0, Some(p), r)>>
                    /\ reply' = <<r>>
                    /\ UNCHANGED <<cache, db, next_id>>
               ELSE /\ spy' = <<Op("register", 0, Some(p), r),
                                Op("cao.load", next_id, Some(p), l)>>
                    /\ reply' = <<IF l.ok THEN r ELSE Failed_with("ServiceUnavailable")>>
                    /\ db' = [db EXCEPT ![next_id] = Some(p)]
                    /\ next_id' = next_id + 1
                    /\ cache' = loaded(cache, next_id, p, l)
            /\ UNCHANGED <<libVars, runTxVars, usecaseVars, pairVars>>

\* Largest number of persons in one batch.
MaxBatch == 2

\* The lists of persons a caller imports.
Batches == UNION {[1..n -> Persons] : n \in 0..MaxBatch}

\* The service's batch_import: one new id per person, in input order.
batch_import(persons, fails, e) ==
    IF fails THEN Failed_with(e)
    ELSE Found([i \in 1..Len(persons) |-> next_id + i - 1])

\* The loads of ids[i] with persons[i] for i up to last; the load at position
\* bad fails (none does when bad is 0).
loads(ids, persons, last, bad) ==
    [i \in 1..last |-> Op("cao.load", ids[i], Some(persons[i]), cao_load(i = bad))]

\* The cache after the first n of the loads ls, each having succeeded.
RECURSIVE loaded_all(_, _, _)
loaded_all(c, ls, n) ==
    IF n = 0 THEN c
    ELSE [loaded_all(c, ls, n - 1) EXCEPT ![ls[n].id] = ls[n].person]

\* for_each over ids zipped with persons, each load under expect: the loads
\* made, with bad the position of the load that fails (0: none).
for_each_load(ids, persons, bad) ==
    loads(ids, persons, IF bad = 0 THEN Len(ids) ELSE bad, bad)

cached_batch_import(persons) ==
    \E bf \in BOOLEAN, e \in ServiceErrors, bad \in 0..Len(persons) :
        LET r == batch_import(persons, bf, e)
            n == Len(persons)
            ls == for_each_load(r.val, persons, bad)
        IN  /\ Alive
            /\ next_id + n - 1 <= MaxId
            /\ req' = Request("cached_batch_import", 0, persons)
            /\ IF ~r.ok
               THEN /\ spy' = <<Op("batch_import", 0, persons, r)>>
                    /\ reply' = <<r>>
                    /\ UNCHANGED <<cache, db, next_id>>
               ELSE /\ spy' = <<Op("batch_import", 0, persons, r)>> \o ls
                    /\ reply' = IF bad = 0 THEN <<r>> ELSE <<>>
                    /\ db' = [i \in PersonIds |->
                                 IF i \in next_id..(next_id + n - 1)
                                 THEN Some(persons[i - next_id + 1]) ELSE db[i]]
                    /\ next_id' = next_id + n
                    /\ cache' = loaded_all(cache, ls, IF bad = 0 THEN n ELSE bad - 1)
            /\ UNCHANGED <<libVars, runTxVars, usecaseVars, pairVars>>

\* The ids the database holds.
Stored == {i \in PersonIds : db[i] # None}

\* The orders in which list_all may return the stored ids.
Orders == {o \in [1..Cardinality(Stored) -> Stored] :
              \A i, j \in DOMAIN o : o[i] = o[j] => i = j}

\* The service's list_all: every stored (id, person), in the order o.
list_all(o, fails, e) ==
    IF fails THEN Failed_with(e)
    ELSE Found([i \in DOMAIN o |-> <<o[i], db[o[i]][1]>>])

cached_list_all ==
    \E lf \in BOOLEAN, e \in ServiceErrors, o \in Orders, bad \in 0..Cardinality(Stored) :
        LET r == list_all(o, lf, e)
            ls == for_each_load(o, [i \in DOMAIN o |-> db[o[i]][1]], bad)
        IN  /\ Alive
            /\ req' = Request("cached_list_all", 0, <<>>)
            /\ IF ~r.ok
               THEN /\ spy' = <<Op("list_all", 0, None, r)>>
                    /\ reply' = <<r>>
                    /\ cache' = cache
               ELSE /\ spy' = <<Op("list_all", 0, None, r)>> \o ls
                    /\ reply' = IF bad = 0 THEN <<r>> ELSE <<>>
                    /\ cache' = loaded_all(cache, ls, IF bad = 0 THEN Len(o) ELSE bad - 1)
            /\ UNCHANGED <<db, next_id, libVars, runTxVars, usecaseVars, pairVars>>

\* PersonCao::unload under run_tx: Ok(()) or an error.
cao_unload(fails) ==
    IF fails THEN Failed_with("CaoError") ELSE Found(None)

\* The service's unregister: Ok(()) or an error.
unregister(fails, e) ==
    IF fails THEN Failed_with(e) ELSE Found(None)

\* cached_unregister that deletes from the database first and unloads the
\* cache only when the delete succeeded.
cached_unregister_db_first(id) ==
    \E uf, df \in BOOLEAN, e \in ServiceErrors :
        LET u == cao_unload(uf)
            d == unregister(df, e)
        IN  /\ Alive
            /\ req' = Request("cached_unregister", id, <<>>)
            /\ IF ~d.ok
               THEN /\ spy' = <<Op("unregister", id, None, d)>>
                    /\ reply' = <<d>>
                    /\ UNCHANGED <<cache, db>>
               ELSE /\ spy' = <<Op("unregister", id, None, d), Op("cao.unload", id, None, u)>>
                    /\ reply' = <<IF u.ok THEN d ELSE Failed_with("ServiceUnavailable")>>
                    /\ db' = [db EXCEPT ![id] = None]
                    /\ cache' = IF u.ok THEN [cache EXCEPT ![id] = None] ELSE cache
            /\ UNCHANGED <<next_id, libVars, runTxVars, usecaseVars, pairVars>>

cached_unregister(id) ==
    \E uf, df \in BOOLEAN, e \in ServiceErrors :
        LET u == cao_unload(uf)
            d == unregister(df, e)
        IN  /\ Alive
            /\ req' = Request("cached_unregister", id, <<>>)
            /\ IF ~u.ok
               THEN /\ spy' = <<Op("cao.unload", id, None, u)>>
                    /\ reply' = <<Failed_with("ServiceUnavailable")>>
                    /\ UNCHANGED <<cache, db>>
               ELSE /\ spy' = <<Op("cao.unload", id, None, u), Op("unregister", id, None, d)>>
                    /\ reply' = <<d>>
                    /\ cache' = [cache EXCEPT ![id] = None]
                    /\ db' = IF d.ok THEN [db EXCEPT ![id] = None] ELSE db
            /\ UNCHANGED <<next_id, libVars, runTxVars, usecaseVars, pairVars>>

InitCached == LibIdle /\ RunTxIdle /\ UsecaseIdle /\ PairIdle /\ CachedIdle

NextCached ==
    \/ \E p \in Persons : cached_register(p)
    \/ \E id \in PersonIds : cached_find(id)
    \/ \E persons \in Batches : cached_batch_import(persons)
    \/ cached_list_all
    \/ \E id \in PersonIds : cached_unregister(id)

SpecCached == InitCached /\ [][NextCached]_vars

\* The positions in spy of the operations called name.
SpyOf(name) == {i \in DOMAIN spy : spy[i].op = name}

\* What every cached_find does up to the load, whose outcome is left to
\* the two statements below.
CachedFindUpToLoad ==
    /\ spy[1].op = "cao.find" /\ SpyOf("cao.find") = {1}
    /\ \A i \in DOMAIN spy :
           /\ spy[i].op \in {"cao.find", "find", "cao.load"}
           /\ spy[i].id = spy[1].id
    /\ (spy[1].res.ok /\ spy[1].res.val # None) =>
           /\ Len(spy) = 1
           /\ reply = <<Found(spy[1].res.val)>>
    /\ (spy[1].res.ok /\ spy[1].res.val = None) =>
           /\ SpyOf("find") = {2}
           /\ (spy[2].res.ok /\ spy[2].res.val # None) <=> SpyOf("cao.load") # {}
           /\ SpyOf("cao.load") \subseteq {3}
           /\ SpyOf("cao.load") = {} => reply = <<spy[2].res>>
           /\ SpyOf("cao.load") = {3} => spy[3].person = spy[2].res.val

\* C20 as stated: cached_find looks in the cache once, first; on a hit it
\* returns the cached person and calls nothing else; on a miss it calls find
\* once and, iff the database returned Some(person), loads (id, person) once
\* and returns it.
CachedFindReturnsThePerson ==
    req.op = "cached_find" =>
        /\ CachedFindUpToLoad
        /\ SpyOf("cao.load") = {3} =>
               /\ reply = <<spy[2].res>>
               /\ cache[spy[1].id] = spy[2].res.val

(* C20, amended: cached_find looks the id up in the cache once, first; if  *)
(* that lookup fails it returns Err(ServiceUnavailable) and calls nothing  *)
(* else; on a hit it returns the cached person without calling find or     *)
(* load; on a miss it calls find once and returns find's error if it       *)
(* fails; iff the database returned Some(person) it loads (id, person)     *)
(* once, and returns the person if the load succeeded and                  *)
(* Err(ServiceUnavailable) if it failed.  No other operation is called.    *)
CachedFindLooksInCacheFirst ==
    req.op = "cached_find" =>
        /\ CachedFindUpToLoad
        /\ ~spy[1].res.ok =>
               /\ Len(spy) = 1
               /\ reply = <<Failed_with("ServiceUnavailable")>>
        /\ (SpyOf("cao.load") = {3} /\ spy[3].res.ok) =>
               /\ reply = <<spy[2].res>>
               /\ cache[spy[1].id] = spy[2].res.val
        /\ (SpyOf("cao.load") = {3} /\ ~spy[3].res.ok) =>
               /\ reply = <<Failed_with("ServiceUnavailable")>>
               /\ cache[spy[1].id] = None

\* A miss on id 2 that the database answers with bob: bob was loaded and
\* returned, and the cache holds him now.
CachedFindLooksInCacheFirst_witness ==
    /\ Len(spy) = 3
    /\ spy[1] = Op("cao.find", 2, None, Found(None))
    /\ spy[2] = Op("find", 2, None, Found(Some("bob")))
    /\ spy[3] = Op("cao.load", 2, Some("bob"), Found(None))
    /\ reply = <<Found(Some("bob"))>>
    /\ cache[2] = Some("bob")
    /\ db[2] = Some("bob")

\* What every cached_register does up to the load: one register with the
\* caller's arguments, then one load of what register returned iff it
\* succeeded; register's error is returned when it failed.
CachedRegisterUpToLoad ==
    /\ spy[1].op = "register" /\ SpyOf("register") = {1}
    /\ spy[1].person = Some(req.persons[1])
    /\ \A i \in DOMAIN spy : spy[i].op \in {"register", "cao.load"}
    /\ ~spy[1].res.ok =>
           /\ Len(spy) = 1
           /\ reply = <<spy[1].res>>
    /\ spy[1].res.ok =>
           /\ SpyOf("cao.load") = {2}
           /\ spy[2].id = spy[1].res.val[1]
           /\ spy[2].person = Some(spy[1].res.val[2])
           /\ spy[1].res.val[2] = req.persons[1]
           /\ db[spy[2].id] = spy[2].person

\* C21 as stated: cached_register calls register once with its arguments;
\* when register returns Ok((id, person)) it loads that (id, person) once and
\* returns register's result; when register fails it loads nothing and
\* returns register's error; it calls nothing else.
CachedRegisterReturnsRegistersResult ==
    req.op = "cached_register" =>
        /\ CachedRegisterUpToLoad
        /\ reply = <<spy[1].res>>

(* C21, amended: cached_register calls register once with its arguments;   *)
(* when register returns Ok((id, person)) it loads that (id, person) once, *)
(* and returns register's result if the load succeeded and                 *)
(* Err(ServiceUnavailable) if the load failed; when register fails it      *)
(* loads nothing and returns register's error; it calls nothing else.      *)
CachedRegisterLoadsWhatWasRegistered ==
    req.op = "cached_register" =>
        /\ CachedRegisterUpToLoad
        /\ (spy[1].res.ok /\ spy[2].res.ok) =>
               /\ reply = <<spy[1].res>>
               /\ cache[spy[2].id] = spy[2].person
        /\ (spy[1].res.ok /\ ~spy[2].res.ok) =>
               reply = <<Failed_with("ServiceUnavailable")>>

\* bob was registered second, got id 2, was loaded into the cache and
\* returned.
CachedRegisterLoadsWhatWasRegistered_witness ==
    /\ req = Request("cached_register", 0, <<"bob">>)
    /\ spy = <<Op("register", 0, Some("bob"), Found(<<2, "bob">>)),
               Op("cao.load", 2, Some("bob"), Found(None))>>
    /\ reply = <<Found(<<2, "bob">>)>>
    /\ cache[2] = Some("bob")
    /\ db[2] = Some("bob")

\* C22: cached_batch_import calls batch_import once with the whole list;
\* when it returns ids the cache receives one load per position, in order,
\* of the i-th id with the i-th person, and the ids are returned unchanged;
\* when batch_import fails nothing is loaded.
CachedBatchImportLoadsEveryPerson ==
    req.op = "cached_batch_import" =>
        /\ spy[1].op = "batch_import" /\ SpyOf("batch_import") = {1}
        /\ spy[1].person = req.persons
        /\ \A i \in DOMAIN spy : spy[i].op \in {"batch_import", "cao.load"}
        /\ ~spy[1].res.ok =>
               /\ Len(spy) = 1
               /\ reply = <<spy[1].res>>
        /\ spy[1].res.ok =>
               /\ Len(spy) = 1 + Len(req.persons)
               /\ \A i \in 1..Len(req.persons) :
                      /\ spy[1 + i].id = spy[1].res.val[i]
                      /\ spy[1 + i].person = Some(req.persons[i])
               /\ reply = <<spy[1].res>>

\* The same for the calls that returned, and what a call that panicked did:
\* the loads up to the one that failed, in order.
CachedBatchImportReturned ==
    req.op = "cached_batch_import" =>
        /\ spy[1].op = "batch_import" /\ SpyOf("batch_import") = {1}
        /\ spy[1].person = req.persons
        /\ \A i \in DOMAIN spy : spy[i].op \in {"batch_import", "cao.load"}
        /\ ~spy[1].res.ok =>
               /\ Len(spy) = 1
               /\ reply = <<spy[1].res>>
        /\ spy[1].res.ok =>
               /\ Len(spy) <= 1 + Len(req.persons)
               /\ \A i \in 1..(Len(spy) - 1) :
                      /\ spy[1 + i].id = spy[1].res.val[i]
                      /\ spy[1 + i].person = Some(req.persons[i])
                      /\ spy[1 + i].res.ok <=> (i < Len(spy) - 1 \/ reply # <<>>)
               /\ reply # <<>> =>
                      /\ Len(spy) = 1 + Len(req.persons)
                      /\ reply = <<spy[1].res>>

\* alice and bob were imported as 1 and 2; the load of alice failed and
\* cached_batch_import panicked: bob was never loaded, nothing was returned.
CachedBatchImportLoadsEveryPerson_witness ==
    /\ req = Request("cached_batch_import", 0, <<"alice", "bob">>)
    /\ spy = <<Op("batch_import", 0, <<"alice", "bob">>, Found(<<1, 2>>)),
               Op("cao.load", 1, Some("alice"), Failed_with("CaoError"))>>
    /\ reply = <<>>
    /\ db[1] = Some("alice") /\ db[2] = Some("bob")
    /\ cache[1] = None /\ cache[2] = None

(* C23: cached_unregister(id) unloads id from the cache before it calls    *)
(* unregister(id): if the unload fails it returns Err(ServiceUnavailable)  *)
(* and unregister is never called; otherwise it returns unregister's       *)
(* result, and the cache entry stays removed also when unregister fails.   *)
CachedUnregisterUnloadsFirst ==
    req.op = "cached_unregister" =>
        /\ spy[1] = Op("cao.unload", req.id, None, spy[1].res)
        /\ SpyOf("cao.unload") = {1}
        /\ ~spy[1].res.ok =>
               /\ Len(spy) = 1
               /\ reply = <<Failed_with("ServiceUnavailable")>>
        /\ spy[1].res.ok =>
               /\ Len(spy) = 2
               /\ spy[2] = Op("unregister", req.id, None, spy[2].res)
               /\ reply = <<spy[2].res>>
               /\ cache[req.id] = None
               /\ spy[2].res.ok => db[req.id] = None

\* Person 1 was unloaded from the cache, the delete from the database
\* failed: the database still has the person, the cache does not.
CachedUnregisterUnloadsFirst_witness ==
    /\ req = Request("cached_unregister", 1, <<>>)
    /\ Len(spy) = 2
    /\ spy[1].res.ok
    /\ ~spy[2].res.ok
    /\ reply = <<spy[2].res>>
    /\ db[1] # None
    /\ cache[1] = None


(* C32: after any series of cached_register, cached_find,                  *)
(* cached_batch_import, cached_list_all and cached_unregister calls, calls *)
(* in which the cache or the database fails without effect included,       *)
(* every entry the cache holds is the database's entry for the same id:    *)
(* the cache never holds an id the database lacks.                         *)
CacheHoldsWhatTheDatabaseHolds ==
    \A id \in PersonIds : cache[id] # None => cache[id] = db[id]

\* Both persons were stored and cached, then cached_unregister(2) removed
\* the second from the cache and the database failed to delete it.
CacheHoldsWhatTheDatabaseHolds_witness ==
    /\ req = Request("cached_unregister", 2, <<>>)
    /\ Len(spy) = 2
    /\ ~spy[2].res.ok
    /\ cache[1] # None
    /\ cache[1] = db[1]
    /\ cache[2] = None
    /\ db[2] # None

--------------------------------------------------------------------------
(* PersonUsecase (src/app/usecase.rs).  A use case asks the DAO for        *)
(* computation values and composes them with the combinators; the value is *)
(* then run like any other (Run).  The DAO is the one of the tests: every  *)
(* operation is a leaf that returns the result the DAO was set up with,    *)
(* and the context is the log of the DAO operations that were run.         *)

Dates == {"2020-12-30", "2021-01-01"}

\* PersonLayout: a name and the date of death, if any.
PersonLayouts == [name : Persons, death : {None} \cup {Some(d) : d \in Dates}]

\* What a fetch can find.
Fetched == {None} \cup {Some(p) : p \in PersonLayouts}

\* What a select can find.
Selected == {<<>>} \cup {<<<<i, p>>>> : i \in PersonIds, p \in PersonLayouts}

\* Result<T, DaoError>
DaoResult(ok, v, e) == IF ok THEN Ok(v) ELSE Err(e)

\* The use case's computation value is handed to the caller.
Handed(call, t) ==
    /\ pc = "build"
    /\ tx = <<>>
    /\ UsecaseIdle
    /\ uc' = call
    /\ tx' = <<t>>
    /\ fresh' = t.node + 1
    /\ UNCHANGED <<nops, ctx, trace, result, ran, pc, runTxVars, cachedVars, pairVars>>

\* PersonUsecase::entry
entry(person) ==
    \E ok \in BOOLEAN, id \in PersonIds :
        Handed(UsecaseCall("entry", <<>>, <<person>>, <<>>),
                 combinator("MapErr", 2,
                            dao_leaf(1, "insert", person, DaoResult(ok, id, "InsertError")),
                            [id |-> "EntryPersonFailed", own |-> 2]))

\* PersonUsecase::find
find_person(id) ==
    \E ok \in BOOLEAN, found \in Fetched :
        Handed(UsecaseCall("find", <<id>>, <<>>, <<>>),
                 combinator("MapErr", 2,
                            dao_leaf(1, "fetch", id, DaoResult(ok, found, "SelectError")),
                            [id |-> "FindPersonFailed", own |-> 2]))

\* entry_and_verify that fetches another id than the inserted one.
entry_and_verify_fetches_other_id(person) ==
    \E ok1, ok2 \in BOOLEAN, id \in PersonIds, found \in Fetched :
        Handed(UsecaseCall("entry_and_verify", <<>>, <<person>>, <<>>),
                 combinator("MapErr", 3,
                     combinator("AndThen", 2,
                         combinator("Map", 1,
                             dao_leaf(4, "insert", person, DaoResult(ok1, id, "InsertError")),
                             [id |-> "dbl", own |-> 1]),
                         [id |-> "fetch_and_verify", own |-> 2,
                          fetched |-> DaoResult(ok2, found, "SelectError")]),
                     [id |-> "EntryAndVerifyPersonFailed", own |-> 3]))

\* PersonUsecase::entry_and_verify
entry_and_verify(person) ==
    \E ok1, ok2 \in BOOLEAN, id \in PersonIds, found \in Fetched :
        Handed(UsecaseCall("entry_and_verify", <<>>, <<person>>, <<>>),
                 combinator("MapErr", 3,
                     combinator("AndThen", 2,
                         dao_leaf(1, "insert", person, DaoResult(ok1, id, "InsertError")),
                         [id |-> "fetch_and_verify", own |-> 2,
                          fetched |-> DaoResult(ok2, found, "SelectError")]),
                     [id |-> "EntryAndVerifyPersonFailed", own |-> 3]))

\* PersonUsecase::collect
collect ==
    \E ok \in BOOLEAN, all \in Selected :
        Handed(UsecaseCall("collect", <<>>, <<>>, <<>>),
                 combinator("MapErr", 2,
                            dao_leaf(1, "select", <<>>, DaoResult(ok, all, "SelectError")),
                            [id |-> "CollectPersonFailed", own |-> 2]))

\* death that marks the person dead at another date than the given one.
death_marks_other_date(id, date) ==
    \E ok1, ok2, rejects \in BOOLEAN, found \in Fetched :
        Handed(UsecaseCall("death", <<id>>, <<>>, <<date>>),
                 combinator("AndThen", 4,
                     combinator("TryMap", 3,
                         combinator("MapErr", 2,
                             dao_leaf(1, "fetch", id, DaoResult(ok1, found, "SelectError")),
                             [id |-> "FindPersonFailed", own |-> 2]),
                         [id |-> "mark_dead", own |-> 3, rejects |-> rejects,
                          date |-> CHOOSE d \in Dates : d # date]),
                     [id |-> "save_dead", own |-> 4, id_ |-> id,
                      saved |-> DaoResult(ok2, <<>>, "UpdateError")]))

\* PersonUsecase::death
death(id, date) ==
    \E ok1, ok2, rejects \in BOOLEAN, found \in Fetched :
        Handed(UsecaseCall("death", <<id>>, <<>>, <<date>>),
                 combinator("AndThen", 4,
                     combinator("TryMap", 3,
                         combinator("MapErr", 2,
                             dao_leaf(1, "fetch", id, DaoResult(ok1, found, "SelectError")),
                             [id |-> "FindPersonFailed", own |-> 2]),
                         [id |-> "mark_dead", own |-> 3, date |-> date, rejects |-> rejects]),
                     [id |-> "save_dead", own |-> 4, id_ |-> id,
                      saved |-> DaoResult(ok2, <<>>, "UpdateError")]))

\* remove that reports a failed delete as a failed find.
remove_reports_find_failed(id) ==
    \E ok \in BOOLEAN :
        Handed(UsecaseCall("remove", <<id>>, <<>>, <<>>),
                 combinator("MapErr", 2,
                            dao_leaf(1, "delete", id, DaoResult(ok, <<>>, "DeleteError")),
                            [id |-> "FindPersonFailed", own |-> 2]))

\* PersonUsecase::remove
remove(id) ==
    \E ok \in BOOLEAN :
        Handed(UsecaseCall("remove", <<id>>, <<>>, <<>>),
                 combinator("MapErr", 2,
                            dao_leaf(1, "delete", id, DaoResult(ok, <<>>, "DeleteError")),
                            [id |-> "RemovePersonFailed", own |-> 2]))

InitUsecase == LibIdle /\ RunTxIdle /\ CachedIdle /\ PairIdle /\ UsecaseIdle

NextUsecase ==
    \/ \E person \in PersonLayouts : entry(person)
    \/ \E id \in PersonIds : find_person(id)
    \/ \E person \in PersonLayouts : entry_and_verify(person)
    \/ collect
    \/ \E id \in PersonIds, date \in Dates : death(id, date)
    \/ \E id \in PersonIds : remove(id)
    \/ Run

SpecUsecase == InitUsecase /\ [][NextUsecase]_vars

\* The use case called op was run to its end.
UsecaseRan(op) == uc.op = op /\ pc = "done"

RECURSIVE first_leaf(_)

\* The leaf of computation value t that runs first.
first_leaf(t) == IF t.op = "WithTx" THEN t ELSE first_leaf(t.tx1)

\* The DAO leaf the use case was built on; its f.res is the result the DAO
\* was set up with.
FirstDao == first_leaf(ran[1])

\* The result the DAO was set up with for the operation made inside the
\* closure of the and_then.
SecondDao == IF uc.op = "death" THEN ran[1].f.saved ELSE ran[1].tx1.f.fetched

\* The use case returned Err(tag(e)).
FailsAs(tag, e) ==
    /\ ~result[1].ok
    /\ result[1].val.tag = tag
    /\ result[1].val.e = e

\* C24: entry_and_verify(person).run inserts the person and then fetches
\* with exactly the id the insert returned.  When the insert fails the
\* fetch is not run and the result is EntryAndVerifyPersonFailed(insert
\* error); when the fetch fails, EntryAndVerifyPersonFailed(fetch error);
\* when it finds nobody, EntryAndVerifyPersonFailed(SelectError); when it
\* finds p, Ok((id, p)).
EntryAndVerifyFetchesInsertedId ==
    UsecaseRan("entry_and_verify") =>
        LET ins == FirstDao.f.res
            fet == SecondDao
            inserted == [op |-> "insert", arg |-> uc.person[1]]
        IN  IF ~ins.ok
            THEN /\ ctx = <<inserted>>
                 /\ FailsAs("EntryAndVerifyPersonFailed", ins.val)
            ELSE /\ ctx = <<inserted, [op |-> "fetch", arg |-> ins.val]>>
                 /\ IF ~fet.ok
                    THEN FailsAs("EntryAndVerifyPersonFailed", fet.val)
                    ELSE IF fet.val = None
                    THEN FailsAs("EntryAndVerifyPersonFailed", "SelectError")
                    ELSE /\ result[1].ok
                         /\ result[1].val = <<ins.val, fet.val[1]>>

\* An insert that returned the last id, followed by a fetch of that id that
\* found a person.
EntryAndVerifyFetchesInsertedId_witness ==
    /\ UsecaseRan("entry_and_verify")
    /\ Len(ctx) = 2
    /\ ctx[2] = [op |-> "fetch", arg |-> MaxId]
    /\ result[1].ok
    /\ result[1].val[1] = MaxId
    /\ result[1].val[2].name = "bob"

\* C25: death(id, date).run fetches id and saves only when the fetch found
\* a person and marking that person dead at date succeeded; what is saved
\* is (id, that person with the death date).  A fetch error e gives
\* FindPersonFailed(e), a missing person FindPersonFailed(SelectError), a
\* rejected date DomainObjectChangeFailed, and in these three cases save is
\* not run; a save error e gives SavePersonFailed(e).
DeathSavesOnlyMarkedPerson ==
    UsecaseRan("death") =>
        LET fet == FirstDao.f.res
            sav == SecondDao
            rejects == ran[1].tx1.f.rejects
            fetched == [op |-> "fetch", arg |-> uc.id[1]]
        IN  IF ~fet.ok
            THEN ctx = <<fetched>> /\ FailsAs("FindPersonFailed", fet.val)
            ELSE IF fet.val = None
            THEN ctx = <<fetched>> /\ FailsAs("FindPersonFailed", "SelectError")
            ELSE IF rejects
            THEN /\ ctx = <<fetched>>
                 /\ ~result[1].ok
                 /\ result[1].val.tag = "DomainObjectChangeFailed"
            ELSE /\ ctx = <<fetched,
                            [op |-> "save",
                             arg |-> <<uc.id[1],
                                       [name |-> fet.val[1].name, death |-> Some(uc.date[1])]>>]>>
                 /\ IF sav.ok THEN result[1].ok
                    ELSE FailsAs("SavePersonFailed", sav.val)

\* A living person was fetched, marked and saved.
DeathSavesOnlyMarkedPerson_witness ==
    /\ UsecaseRan("death")
    /\ Len(ctx) = 2
    /\ FirstDao.f.res.val[1].death = None
    /\ ctx[2].op = "save"
    /\ ctx[2].arg[2].death = Some("2021-01-01")
    /\ result[1].ok

\* The DAO operation each of the four simple use cases is built on, its
\* argument, and the error it wraps a DAO error in.
SimpleUsecases ==
    [entry   |-> [dao |-> "insert", arg |-> uc.person, failed |-> "EntryPersonFailed"],
     find    |-> [dao |-> "fetch",  arg |-> uc.id,     failed |-> "FindPersonFailed"],
     collect |-> [dao |-> "select", arg |-> <<>>,      failed |-> "CollectPersonFailed"],
     remove  |-> [dao |-> "delete", arg |-> uc.id,     failed |-> "RemovePersonFailed"]]

\* C26: entry, find, collect and remove each run exactly one DAO operation
\* (insert, fetch, select, delete) exactly once with the use case's
\* argument and no other; a success value of the DAO is returned unchanged
\* and an error e is returned as EntryPersonFailed(e), FindPersonFailed(e),
\* CollectPersonFailed(e), RemovePersonFailed(e).
SimpleUsecasesCallOneDaoOperation ==
    (pc = "done" /\ uc.op \in DOMAIN SimpleUsecases) =>
        LET u == SimpleUsecases[uc.op]
            res == FirstDao.f.res
        IN  /\ Len(ctx) = 1
            /\ ctx[1].op = u.dao
            /\ IF u.arg = <<>> THEN ctx[1].arg = <<>> ELSE ctx[1].arg = u.arg[1]
            /\ result[1].ok = res.ok
            /\ IF res.ok THEN result[1] = res
               ELSE FailsAs(u.failed, res.val)

\* A failed delete reported by remove.
SimpleUsecasesCallOneDaoOperation_witness ==
    /\ UsecaseRan("remove")
    /\ ctx = <<[op |-> "delete", arg |-> 1]>>
    /\ FailsAs("RemovePersonFailed", "DeleteError")

==========================================================================
